---- MODULE Spec2Model ----
(***************************************************************************)
(* rf2k-trainer: the tuning sequencer (tuning_loop.py and its copy in      *)
(* main.py), the polling link (radios/rigctl/client.py) with its           *)
(* background PTT monitor, the amplifier's frequency verification          *)
(* (rf2ks_client.py), the ACK transport of the event-driven link           *)
(* (radios/flexradio/transport.py) and set_frequency of both links.        *)
(*                                                                         *)
(* Frequencies are integers in Hz: a float MHz value f of the source is    *)
(* the integer int(round(f * 1_000_000)).                                  *)
(***************************************************************************)
EXTENDS Integers, Sequences, FiniteSets, TLC

\* ------------------------------------------------------------------ bounds

\* Number of entries of the tuning plan (two entries per band).
PlanLen == 3

\* Number of commands the callers send in all (sequence numbers 1..MaxCmds).
MaxCmds == 3

\* Number of lines the listener reads from the command connection.
MaxPeerLines == 3

\* Number of set_frequency calls made on each link.
MaxSetCalls == 3

\* The clock runs from 0 to MaxTime ticks.
MaxTime == 6

\* The longest timeout a wait_for_tx / wait_for_unkey call is given, in ticks.
MaxTimeout == 3

\* One polling slice of a wait (0.25 s on the polling link, 0.03 s on the
\* event-driven link), in ticks.
Slice == 2

\* The transport session with deadlines: commands sent, lines the radio
\* writes, and the longest ack timeout in ticks.
MaxCloseCmds == 2
MaxCloseLines == 2
MaxAckTimeout == 2

\* The inputs of the tuning-point generator, in units of 1.5 kHz: band
\* edges and reference center up to MaxHz, segment size up to MaxStep.
MaxHz == 10
MaxStep == 6

\* Slice status lines the radio writes while the snapshot is followed.
MaxSliceUpdates == 3

\* ------------------------------------------------------- program constants

\* tuning_loop.py:184 (and the default of verify_frequency_match).
max_tries == 2

\* transport.py:51, queue.Queue(maxsize=512).
resp_q_maxsize == 512

None == "None"

VARIABLES
    \* --- inputs of one run (fixed by Init)
    variant,            \* which run_tuning_loop runs: "tuning_loop" or "main"
    radio_type,         \* "rigctl" or "flex"
    dummy,              \* "dummy" in ctx.radio_description
    amp_enabled,        \* ctx.amp_settings["enabled"] (and rf2ks given)
    is_cat,             \* rf2ks has is_cat_iface and it returns True
    force_manual,       \* config defaults.force_manual_ptt
    \* --- main() / run_tuning_loop
    pc,                 \* position of the foreground thread
    seg,                \* index into the plan of the current entry
    last_band,
    tries,              \* reads made by the current verify_frequency_match
    mode,               \* PTT path taken for the current entry
    prev_mode,          \* PTT path taken for the entry decided before
    ptt_local,          \* run_tuning_loop's local ptt_supported
    used_auto_ptt,
    total_segments,
    \* --- history of the run (observations, written by the actions)
    seg_started,        \* entries the loop has started
    freq_set,           \* entries whose set_frequency returned
    last_seen,          \* verify_frequency_match: the last Hz value read, or 0
    tx_timed_out,       \* history: an EVENT-DRIVEN wait for the carrier timed out
    ptt_started,        \* entries whose PTT path was entered
    verify_failed,      \* entry whose verification budget was exhausted, or 0
    \* --- RigctlClient (FlexRadioClient shares ptt_supported, ptt_active)
    ptt_supported,
    supports_event_ptt,
    ptt_active,         \* _ptt_active
    evt_alive,          \* _evt_thread is alive
    reconnect_once,     \* _reconnect_once
    connected,
    saw_rprt11,         \* history: a 't' query was answered RPRT -11
    evt_disabled,       \* history: _disable_event_mode has run
    bool_after_rprt11,  \* history: after an RPRT -11, a 't' reply parsed as 0/1
    \* --- set_frequency of the two links
    freq_hz,            \* RigctlClient.freq_hz, 0 for None
    slice_freq,         \* FlexRadioClient._slices[sid]["freq_mhz"] in Hz, 0 for None
    status_q,           \* slice status lines the radio sent, not yet parsed
    set_calls,          \* history: the set_frequency calls, in order
    \* --- FlexTransport
    next_seq,           \* _seq
    caller,             \* per calling thread: its send_command call
    peer_lines,         \* number of lines the listener has read
    resp_q,             \* _resp_q
    scen,               \* history: progress of the scenario "calls 1, 2, 3
                        \* wait together, ACKs are queued in the order 2, 1, 3"
    \* --- wait_for_tx / wait_for_unkey of the links
    now,                \* the clock, in ticks
    w_pc,               \* position of the waiting call
    w_kind,             \* "tx" (wait_for_tx) or "unkey" (wait_for_unkey)
    w_deadline,         \* deadline / end
    w_wake,             \* when the current slice wait ends
    w_result,           \* the value returned
    w_ret_time,         \* history: the time of the return
    w_ret_level,        \* history: the flag had the awaited level at the return
    w_active_before,    \* history: the flag had the awaited level when the
                        \* call was made or later, before the deadline
    \* --- RigctlClient._send, called by the foreground and by the monitor
    s_pc,               \* per thread: position inside _send and its caller
    s_op,               \* the one-shot operation the foreground thread runs
    s_lock,             \* owner of self.lock, or None
    s_sends,            \* history, per thread: writes of the command in this call
    s_fails,            \* history, per thread: writes that raised in this call
    s_reconn,           \* history, per thread: _reconnect() calls made for this call
    s_rfail,            \* history, per thread: a _reconnect() of this call raised
    mon_errors,         \* history: exceptions of _send the monitor loop caught
    mon_loop_reconn,    \* history: _reconnect() calls made by the monitor loop
    \* --- FlexTransport with its clock and its listener's teardown
    t_connected,        \* _connected, with _sock set
    c_left,             \* per calling thread: time left until the deadline of its send_command
    at_close,           \* history: the calls that were waiting at the teardown
    \* --- calculate_tuning_frequencies, one call
    b_pc,               \* "in" before the call, "out" after it
    b_bs,               \* band start in Hz
    b_be,               \* band end in Hz
    b_step,             \* segment size in Hz
    b_c0,               \* reference center in Hz
    b_out,              \* what the call gave: raised, or the points in Hz
    \* --- FlexRadioClient: the restore snapshot
    slices,             \* _slices: per slice id, what the listener mirrored
    tx_slice_id,        \* the slice flagged tx=1, or NoSlice
    orig,               \* _orig: taken, slice_id, mode, freq_mhz
    snap_pc,            \* position of the foreground inside snapshot_state
    snap_sid,           \* snapshot_state: sid
    snap_mode,          \* snapshot_state: mode
    snap_freq,          \* snapshot_state: freq_mhz
    slice_updates,      \* number of slice status lines received
    first_cap,          \* history: _orig as the first capture wrote it
    \* --- FlexRadioClient.shutdown
    sh_pc,              \* position inside shutdown / restore_state
    sh_restore,         \* the restore argument
    sh_cmds,            \* history: the restore commands issued, in order
    sh_raised,          \* shutdown let an exception out
    \* --- main(), its finally and the handlers under __main__
    m_pc,               \* position of the process
    m_restore,          \* restore: defaults.restore_state of the configuration
    m_rigctld,          \* radio_setup started a rigctld of its own
    m_client,           \* radio_client is not None
    m_exc,              \* the exception in flight, or None
    m_cause,            \* history: what ended the try block, and at which step
    m_shutdown,         \* history: the restore flags shutdown was called with
    m_exit_arg,         \* <<the argument of the sys.exit in flight>>, or <<>>
    m_status,           \* <<the exit status>> once the process ended, or <<>>
    \* --- run_tuning_loop: band preparation and set_frequency, with what
    \* --- the link raises
    p_pc,               \* position of the loop
    p_seg,              \* index of the plan entry
    p_last_band,        \* last_band
    p_auto_cw,          \* auto_set_cw_mode
    p_prep_failed,      \* history: entries whose band preparation was logged as failed
    p_freq_failed,      \* history: entries whose set_frequency was logged as failed
    p_attempted,        \* history: entries set_frequency was called for
    p_exc,              \* the exception that left run_tuning_loop, or None
    \* --- run_tuning_loop: the PTT cycle of an entry, call by call
    y_pc,               \* position inside the cycle
    y_supported,        \* radio_client.ptt_supported
    y_event,            \* radio_client.supports_event_ptt
    y_ptt,              \* what the link reports: the radio is transmitting
    y_mode,             \* the path "Decide PTT path" took for this entry
    y_left,             \* slices left before the deadline of the current wait
    y_calls,            \* history: the sensing calls made in this cycle
    y_acks,             \* history: the operator's ENTERs in this cycle
    y_used,             \* used_auto_ptt
    y_sensed,           \* history: a sensing call reported the unkey in this cycle
    y_forwarded,        \* history: <<the argument of log_tuner_data>>, or <<>>
    y_power_reads,      \* history: /power reads made for this cycle
    y_cycles,           \* cycles finished
    \* --- FlexRadioClient.set_mode / set_frequency / set_drive_power
    x_pc,               \* "idle" before the call, "done" after it
    x_slices,           \* _slices: per slice id the mirrored mode and frequency (Hz)
    x_tx,               \* tx_slice_id, or NoSlice
    x_rfpower,          \* rfpower_value, or NoPower
    x_tunepower,        \* tunepower_value, or NoPower
    x_last,             \* history: the call made and what it did
    \* --- RF2KSClient.verify_frequency_match
    v_pc,               \* "loop" inside the for-loop, then "returned" or "raised"
    v_expected,         \* expected_hz
    v_max,              \* the max_tries argument
    v_reads,            \* history: the reads of /data made, in order
    v_last_seen,        \* last_seen
    \* --- run_tuning_loop: the plan, from the generator to the wire
    g_pc,               \* "in" before the plan is built, "loop" while it is tuned, "done"
    g_link,             \* "rigctl" or "flex"
    g_band,             \* the band of the configuration: start, end, size, reference (Hz)
    g_pts,              \* history: the points the generator computed, in Hz
    g_plan,             \* plan: the frequency of each entry, in Hz
    g_args,             \* history: the arguments of the set_frequency calls, in Hz
    g_wire,             \* history: the Hz values the link wrote
    \* --- FlexRadioClient: the interlock mirror behind get_ptt
    k_ptt_active,       \* _ptt_active
    k_tx_state,         \* tx_state
    k_rfpower,          \* rfpower_value, or NoPower
    k_lines,            \* number of inbound lines fed to the parser
    k_last,             \* history: the state of the most recent interlock event, or None
    k_got,              \* history: <<what the last get_ptt() returned, k_last at that call>>, or <<>>
    \* --- FlexRadioClient: the slice a set_* command addresses
    h_slices,           \* _slices: per slice id the mirrored fields
    h_tx,               \* tx_slice_id, or NoSlice
    h_updates,          \* number of slice updates received
    h_last_tx,          \* history: the id of the most recent update that carried tx=1, or NoSlice
    h_ids,              \* history: the ids slice updates were received for
    h_cmd,              \* history: <<the last set_* call, the slice id it used>>, or <<>>
    \* --- run_tuning_loop: what the summary counts
    n_pc,               \* position of run_tuning_loop
    n_len,              \* len(plan)
    n_selected,         \* len(ctx.selected_bands)
    n_seg,              \* index of the plan entry
    n_last_band,        \* last_band, 0 for None
    n_seen_bands,       \* seen_bands
    n_total,            \* total_segments
    n_started,          \* history: the entries the loop started
    n_skipped,          \* history: the entries whose step failed or timed out, with the step
    n_report,           \* <<Bands tuned, Segments tuned>> as the summary printed them, or <<>>
    \* --- RigctlClient._send: whose reply a call reads
    r_pc,               \* per thread: position inside _send
    r_lock,             \* owner of self.lock, or None
    r_cmd,              \* per thread: expect_value of its call
    r_buf,              \* the lines rigctld has written and nobody has read yet, each with the thread whose command it answers
    r_first,            \* per thread: the first line its call read, or NoLine
    r_calls,            \* per thread: the _send calls it has made
    r_read,             \* history: <<the thread that read a line, the thread whose command it answers>>
    r_ret,              \* history: <<the thread a line was returned to, the thread whose command it answers>>
    \* --- RigctlClient.shutdown against the background poller
    d_pc,               \* position of the foreground thread inside shutdown
    d_mon,              \* position of the background poller
    d_lock,             \* owner of self.lock, or None
    d_stop,             \* _evt_stop is set
    d_connected,        \* connected
    d_open,             \* _sock / conn is set
    d_reconnect_once,   \* _reconnect_once
    d_event,            \* supports_event_ptt
    d_polls,            \* the polls the poller has started
    d_opens             \* history: the times the transport was opened after shutdown returned

seqVars == <<pc, seg, last_band, tries, mode, prev_mode, ptt_local, used_auto_ptt,
             total_segments, seg_started, freq_set, last_seen, tx_timed_out,
             ptt_started, verify_failed>>
cfgVars == <<variant, radio_type, dummy, amp_enabled, is_cat, force_manual>>
rigVars == <<ptt_supported, supports_event_ptt, ptt_active, evt_alive,
             reconnect_once, connected, saw_rprt11, evt_disabled, bool_after_rprt11>>
linkVars == <<freq_hz, slice_freq, status_q, set_calls>>
ackVars == <<next_seq, caller, peer_lines, resp_q, scen>>
waitVars == <<now, w_pc, w_kind, w_deadline, w_wake, w_result, w_ret_time,
              w_ret_level, w_active_before>>
\* The variables of the parts that the sequencer, the link sessions and the
\* transport session leave alone.
sendVars == <<s_pc, s_op, s_lock, s_sends, s_fails, s_reconn, s_rfail,
              mon_errors, mon_loop_reconn>>
closeVars == <<t_connected, c_left, at_close>>
bandVars == <<b_pc, b_bs, b_be, b_step, b_c0, b_out>>
\* The parts added after the link and transport sessions.
snapVars == <<slices, tx_slice_id, orig, snap_pc, snap_sid, snap_mode, snap_freq,
              slice_updates, first_cap>>
shutVars == <<sh_pc, sh_restore, sh_cmds, sh_raised>>
procVars == <<m_pc, m_restore, m_rigctld, m_client, m_exc, m_cause, m_shutdown,
              m_exit_arg, m_status>>
\* The groups added after shutdown, and everything before them.
prepVars == <<p_pc, p_seg, p_last_band, p_auto_cw, p_prep_failed, p_freq_failed,
              p_attempted, p_exc>>
cycleVars == <<y_pc, y_supported, y_event, y_ptt, y_mode, y_left, y_calls, y_acks,
               y_used, y_sensed, y_forwarded, y_power_reads, y_cycles>>
flexVars == <<x_pc, x_slices, x_tx, x_rfpower, x_tunepower, x_last>>
verifyVars == <<v_pc, v_expected, v_max, v_reads, v_last_seen>>
planVars == <<g_pc, g_link, g_band, g_pts, g_plan, g_args, g_wire>>
lockVars == <<k_ptt_active, k_tx_state, k_rfpower, k_lines, k_last, k_got>>
chanVars == <<h_slices, h_tx, h_updates, h_last_tx, h_ids, h_cmd>>
countVars == <<n_pc, n_len, n_selected, n_seg, n_last_band, n_seen_bands, n_total, n_started, n_skipped, n_report>>
replyVars == <<r_pc, r_lock, r_cmd, r_buf, r_first, r_calls, r_read, r_ret>>
stopVars == <<d_pc, d_mon, d_lock, d_stop, d_connected, d_open, d_reconnect_once, d_event, d_polls, d_opens>>
\* The groups added after the verification.
extVars == <<planVars, lockVars, chanVars, countVars, replyVars, stopVars>>
postVars == <<procVars, prepVars, cycleVars, flexVars, verifyVars, extVars>>
preVars == <<cfgVars, seqVars, rigVars, linkVars, ackVars, waitVars, sendVars,
             closeVars, bandVars, snapVars, shutVars>>
\* What the process session leaves alone.
procOther == <<preVars, prepVars, cycleVars, flexVars, verifyVars, extVars>>
\* What the band preparation session leaves alone.
prepOther == <<preVars, procVars, cycleVars, flexVars, verifyVars, extVars>>
\* What the PTT cycle session leaves alone.
cycleOther == <<preVars, procVars, prepVars, flexVars, verifyVars, extVars>>
\* What the set_* session of the event-driven link leaves alone.
flexOther == <<preVars, procVars, prepVars, cycleVars, verifyVars, extVars>>
\* What the verification session leaves alone.
verifyOther == <<preVars, procVars, prepVars, cycleVars, flexVars, extVars>>
\* Every group up to the verification.
coreVars == <<preVars, procVars, prepVars, cycleVars, flexVars, verifyVars>>
\* What the plan session leaves alone.
planOther == <<coreVars, lockVars, chanVars, countVars, replyVars, stopVars>>
\* What the interlock session leaves alone.
lockOther == <<coreVars, planVars, chanVars, countVars, replyVars, stopVars>>
\* What the channel session leaves alone.
chanOther == <<coreVars, planVars, lockVars, countVars, replyVars, stopVars>>
\* What the counting session leaves alone.
countOther == <<coreVars, planVars, lockVars, chanVars, replyVars, stopVars>>
\* What the reply session leaves alone.
replyOther == <<coreVars, planVars, lockVars, chanVars, countVars, stopVars>>
\* What the disconnect session leaves alone.
stopOther == <<coreVars, planVars, lockVars, chanVars, countVars, replyVars>>
\* The groups added after the snapshot.
tailVars == <<shutVars, postVars>>
laterVars == <<bandVars, snapVars, tailVars>>
restVars == <<waitVars, sendVars, closeVars, laterVars>>
vars == <<cfgVars, seqVars, rigVars, linkVars, ackVars, restVars>>

\* ------------------------------------------------ polling link (rigctl)

\* What _send("t", expect_value=True) gives its caller: a reply line, or
\* "ERR" when it raises RigctlError (reconnect or retry failed).
Replies == {"0", "1", "RPRT -11", "", "?"}
SendOutcomes == Replies \cup {"ERR"}

\* resp.upper().startswith("RPRT -11")
IsRprt11(resp) == resp = "RPRT -11"

\* int(resp.split()[0]) != 0, False when it does not parse.
ParsePtt(resp) == resp = "1"

\* The reply is an integer: int(resp.split()[0]) does not raise.
IsBool(resp) == resp \in {"0", "1"}

\* Faulty variant of GetPttSupported: a reply that parses restores the capability.
GetPttSupportedRelatch(resp, cur) ==
    IF IsRprt11(resp) THEN FALSE ELSE IF IsBool(resp) THEN TRUE ELSE cur

\* get_ptt: the value ptt_supported has after the reply was read.
GetPttSupported(resp, cur) == IF IsRprt11(resp) THEN FALSE ELSE cur

\* get_ptt: the value returned for a reply.
GetPttValue(resp) == IF resp = "" \/ IsRprt11(resp) THEN FALSE ELSE ParsePtt(resp)

\* get_ptt as an effect on the link, for a reply (not "ERR").
GetPttEffect(resp) ==
    /\ ptt_supported' = GetPttSupported(resp, ptt_supported)
    /\ saw_rprt11' = (saw_rprt11 \/ IsRprt11(resp))
    /\ bool_after_rprt11' = (bool_after_rprt11 \/ (saw_rprt11 /\ IsBool(resp)))
    /\ UNCHANGED <<supports_event_ptt, ptt_active, evt_alive, reconnect_once,
                   connected, evt_disabled>>

\* _start_ptt_monitor: the value supports_event_ptt has afterwards.
StartMonitorEventFlag(alive, cur) == IF alive THEN cur ELSE TRUE

\* connect(): _connect, then _start_ptt_monitor.
ConnectEffect ==
    /\ connected' = TRUE
    /\ supports_event_ptt' = StartMonitorEventFlag(evt_alive, supports_event_ptt)
    /\ reconnect_once' = IF evt_alive THEN reconnect_once ELSE TRUE
    /\ evt_alive' = TRUE
    /\ UNCHANGED <<ptt_supported, ptt_active, saw_rprt11, evt_disabled, bool_after_rprt11>>

\* shutdown(): _stop_ptt_monitor, close the transports.
ShutdownEffect ==
    /\ evt_alive' = FALSE
    /\ connected' = FALSE
    /\ UNCHANGED <<ptt_supported, supports_event_ptt, ptt_active, reconnect_once,
                   saw_rprt11, evt_disabled, bool_after_rprt11>>

\* Faulty variant of PollerPttSupported: a reply that parses restores the capability.
PollerPttSupportedRelatch(resp, cur) ==
    IF IsRprt11(resp) THEN FALSE ELSE IF IsBool(resp) THEN TRUE ELSE cur

\* _ptt_monitor_loop: the value ptt_supported has after the reply was read.
PollerPttSupported(resp, cur) == IF IsRprt11(resp) THEN FALSE ELSE cur

\* _ptt_monitor_loop, one iteration that read a reply.
PollerReply(resp) ==
    /\ evt_alive
    /\ bool_after_rprt11' = (bool_after_rprt11 \/ (saw_rprt11 /\ IsBool(resp)))
    /\ IF IsRprt11(resp)
       THEN /\ ptt_active' = FALSE
            /\ supports_event_ptt' = FALSE
            /\ evt_disabled' = TRUE
            /\ evt_alive' = FALSE
            /\ saw_rprt11' = TRUE
       ELSE /\ ptt_active' = ParsePtt(resp)
            /\ UNCHANGED <<supports_event_ptt, evt_disabled, evt_alive,
                           saw_rprt11>>
    /\ ptt_supported' = PollerPttSupported(resp, ptt_supported)
    /\ UNCHANGED <<reconnect_once, connected>>

\* Faulty variant of PollerError: giving up also clears ptt_supported.
PollerErrorToManual(reconnect_ok) ==
    /\ evt_alive
    /\ IF reconnect_once /\ reconnect_ok
       THEN /\ reconnect_once' = FALSE
            /\ connected' = TRUE
            /\ UNCHANGED <<supports_event_ptt, evt_disabled, evt_alive, ptt_supported>>
       ELSE /\ supports_event_ptt' = FALSE
            /\ ptt_supported' = FALSE
            /\ evt_disabled' = TRUE
            /\ evt_alive' = FALSE
            /\ connected' = IF reconnect_once THEN FALSE ELSE connected
            /\ UNCHANGED reconnect_once
    /\ UNCHANGED <<ptt_active, saw_rprt11, bool_after_rprt11>>

\* _ptt_monitor_loop, one iteration whose _send raised; reconnect_ok says
\* whether the single _reconnect() succeeds.
PollerError(reconnect_ok) ==
    /\ evt_alive
    /\ IF reconnect_once /\ reconnect_ok
       THEN /\ reconnect_once' = FALSE
            /\ connected' = TRUE
            /\ UNCHANGED <<supports_event_ptt, evt_disabled, evt_alive>>
       ELSE /\ supports_event_ptt' = FALSE
            /\ evt_disabled' = TRUE
            /\ evt_alive' = FALSE
            /\ connected' = IF reconnect_once THEN FALSE ELSE connected
            /\ UNCHANGED reconnect_once
    /\ UNCHANGED <<ptt_supported, ptt_active, saw_rprt11, bool_after_rprt11>>

RigInit ==
    /\ ptt_supported = TRUE
    /\ supports_event_ptt = FALSE
    /\ ptt_active = FALSE
    /\ evt_alive = FALSE
    /\ reconnect_once = TRUE
    /\ connected = FALSE
    /\ saw_rprt11 = FALSE
    /\ evt_disabled = FALSE
    /\ bool_after_rprt11 = FALSE


\* --------------------------------------------- event-driven link (flex)

\* FlexRadioClient._on_interlock: the listener mirrors the interlock state.
\* "TRANSMITTING" or "TX*" (not "NOT_*") is active.
InterlockStates == {"READY", "TRANSMITTING", "NOT_READY", "TX_ALLOWED"}

\* str.startswith(prefix), for a string or a line of characters
StartsWith(str, prefix) ==
    Len(str) >= Len(prefix) /\ SubSeq(str, 1, Len(prefix)) = prefix

\* Every state text a session's radio sends in an interlock line.
InterlockTexts ==
    InterlockStates \cup {"TX", "NOT_TX", "RECEIVE", "UNKEY_REQUESTED"}

\* active = (state == "TRANSMITTING") or
\*          (state.startswith("TX") and not state.startswith("NOT_")),
\* worked out once for the texts above.
ActiveTexts ==
    {st \in InterlockTexts :
        \/ st = "TRANSMITTING"
        \/ StartsWith(st, "TX") /\ ~StartsWith(st, "NOT_")}

\* Faulty variant of InterlockActive: every state but "READY" is active.
InterlockActiveUnlessReady(state) == state # "READY"

InterlockActive(state) == state \in ActiveTexts

FlexInterlockEffect(state) ==
    /\ ptt_active' = InterlockActive(state)
    /\ UNCHANGED <<ptt_supported, supports_event_ptt, evt_alive, reconnect_once,
                   connected, saw_rprt11, evt_disabled, bool_after_rprt11>>

\* FlexRadioClient.connect(): no monitor thread, no supports_event_ptt.
FlexConnectEffect ==
    /\ connected' = TRUE
    /\ UNCHANGED <<ptt_supported, supports_event_ptt, ptt_active, evt_alive,
                   reconnect_once, saw_rprt11, evt_disabled, bool_after_rprt11>>

\* ------------------------------------ FlexTransport (flexradio/transport.py)

\* A line is the sequence of its characters.
Digit == <<"1", "2", "3", "4", "5", "6", "7", "8", "9">>

\* str(n) for n >= 0
RECURSIVE Str(_)
Str(n) ==
    IF n < 10
    THEN IF n = 0 THEN <<"0">> ELSE <<Digit[n]>>
    ELSE Str(n \div 10) \o (IF n % 10 = 0 THEN <<"0">> ELSE <<Digit[n % 10]>>)

\* The ACK "R<seq>|0" the radio writes for command seq.
AckLine(seq) == <<"R">> \o Str(seq) \o <<"|", "0">>

\* Lines the radio may write: the ACK of any command (also one that was
\* never sent, or sent long ago), an ACK of command 12 and a status line.
PeerLines ==
    {AckLine(n) : n \in 1..MaxCmds} \cup
    {<<"R", "1", "2", "|", "0">>, <<"S", "1", "|", "0">>}

\* Faulty variant of AckMatches: the prefix is compared without the bar.
AckMatchesNoBar(resp, seq) == StartsWith(resp, <<"R">> \o Str(seq))

\* send_command: resp.startswith(f"R{seq}|")
AckMatches(resp, seq) == StartsWith(resp, <<"R">> \o Str(seq) \o <<"|">>)

\* _listener_loop: line.startswith("R")
IsAck(line) == StartsWith(line, <<"R">>)

\* The sequence number an ACK line carries: the characters between the "R"
\* and the first bar (the whole rest when there is no bar).
RECURSIVE UpToBar(_)
UpToBar(chars) ==
    IF chars = <<>> \/ Head(chars) = "|" THEN <<>>
    ELSE <<Head(chars)>> \o UpToBar(Tail(chars))

SeqField(line) == UpToBar(Tail(line))

\* The order in which the scenario queues the ACKs.
ScenOrder == <<2, 1, 3>>

\* scen is the number of ACKs of ScenOrder queued so far, or Off when the
\* run has left the scenario.
Off == 0 - 1

\* The threads that call send_command: one for each command of the scenario.
Callers == {"t1", "t2", "t3"}

IdleCall == [st |-> "idle", seq |-> 0, got |-> <<>>, skipped |-> FALSE]

AckInit ==
    /\ next_seq = 1
    /\ caller = [c \in Callers |-> IdleCall]
    /\ peer_lines = 0
    /\ resp_q = <<>>
    /\ scen = 0

\* ------------------------------ wait_for_tx / wait_for_unkey of the links

\* The level of _ptt_active a call waits for.
Wanted(kind) == (kind = "tx")

\* Faulty variant of FinalResult: a timeout returns False without a last look.
FinalResultFalse(level_ok) == FALSE

\* The value returned once the loop has ended: "return self._ptt_active"
\* (wait_for_tx), "return not self._ptt_active" (wait_for_unkey).
FinalResult(level_ok) == level_ok

\* The length of one wait inside the loop: the polling link waits on the
\* condition for min(0.25, left), the event-driven link sleeps 0.03.
SliceWait(left) ==
    IF radio_type = "rigctl"
    THEN (IF left < Slice THEN left ELSE Slice)
    ELSE Slice

\* A call is in progress.
InWait == w_pc \in {"check", "sleeping"}

\* w_active_before after a step that leaves the flag at level and the clock
\* at t.
ActiveBefore(level, t) ==
    w_active_before \/ (InWait /\ t < w_deadline /\ level = Wanted(w_kind))

WaitInit ==
    /\ now = 0
    /\ w_pc = "idle"
    /\ w_kind = "tx"
    /\ w_deadline = 0
    /\ w_wake = 0
    /\ w_result = FALSE
    /\ w_ret_time = 0
    /\ w_ret_level = FALSE
    /\ w_active_before = FALSE

\* ------------------------------------------------- RigctlClient._send

\* The threads that use the polling link: the foreground thread and the
\* PTT monitor thread.
Threads == {"fg", "mon"}

\* The one-shot operations of the foreground thread.
OneShotOps == {"get_ptt", "set_frequency", "set_mode"}

\* Faulty variant of AfterRetryFails: the failed retry reconnects again.
AfterRetryFailsReconnect == "reconnect"

\* _send: where the call goes when the retry raised: RigctlError.
AfterRetryFails == "raised"

\* _send: where the call goes when _reconnect() raised: its RigctlError
\* leaves _send.
AfterReconnectFails == "raised"

SendInit ==
    /\ s_pc = [t \in Threads |-> "idle"]
    /\ s_op = "get_ptt"
    /\ s_lock = None
    /\ s_sends = [t \in Threads |-> 0]
    /\ s_fails = [t \in Threads |-> 0]
    /\ s_reconn = [t \in Threads |-> 0]
    /\ s_rfail = [t \in Threads |-> FALSE]
    /\ mon_errors = 0
    /\ mon_loop_reconn = 0

\* ------------------------------ band_math.calculate_tuning_frequencies

\* The function computes in integer Hz (bs, be, step, c0 are the rounded
\* inputs times 1000) and returns each point p as the float p / 1000.0; the
\* model keeps the points in Hz.

\* half = step // 2
Half(step) == step \div 2

\* math.ceil(a / b) for b > 0
CeilDiv(a, b) == 0 - ((0 - a) \div b)

\* Faulty variant of FirstCenter: the quotient is rounded down.
FirstCenterFloor(bs, step, c0) == c0 + ((bs + Half(step) - c0) \div step) * step

\* c_right: the first grid center whose left edge is at or after bs.
FirstCenter(bs, step, c0) == c0 + CeilDiv(bs + Half(step) - c0, step) * step

\* The loop condition: the segment around c lies inside the band.
Fits(c, half, bs, be) == c - half >= bs /\ c + half <= be

\* The while loop: the centers from c on, step apart, while they fit.
RECURSIVE FullSegments(_, _, _, _)
FullSegments(c, step, bs, be) ==
    IF Fits(c, Half(step), bs, be)
    THEN <<c>> \o FullSegments(c + step, step, bs, be)
    ELSE <<>>

\* Faulty variant of LeadFiller: the half gap is taken off the band start.
LeadFillerBelow(bs, left) == bs - (left - bs) \div 2

\* lead = bs + (left - bs) // 2
LeadFiller(bs, left) == bs + (left - bs) \div 2

\* trail = be - (be - right) // 2
TrailFiller(be, right) == be - (be - right) \div 2

\* Faulty variant of HasLeadGap: a filler also when the segment starts at bs.
HasLeadGapAlways(first_left, bs) == first_left >= bs

\* if first_left > bs
HasLeadGap(first_left, bs) == first_left > bs

\* if last_right < be
HasTrailGap(last_right, be) == last_right < be

\* L = max(bs, min(left_edge_right, be))
ClampedLeft(bs, be, step, c0) ==
    LET left_edge_right == FirstCenter(bs, step, c0) - Half(step)
        m == IF left_edge_right < be THEN left_edge_right ELSE be
    IN IF bs > m THEN bs ELSE m

\* The branch "if not points_hz".
NoSegmentPoints(bs, be, step, c0) ==
    LET L == ClampedLeft(bs, be, step, c0)
    IN IF L <= bs \/ L >= be
       THEN <<(bs + be) \div 2>>
       ELSE <<LeadFiller(bs, L), TrailFiller(be, L)>>

\* The points for be > bs and step > 0.
TuningPoints(bs, be, step, c0) ==
    LET half == Half(step)
        points_hz == FullSegments(FirstCenter(bs, step, c0), step, bs, be)
    IN IF points_hz = <<>>
       THEN NoSegmentPoints(bs, be, step, c0)
       ELSE LET first_left == points_hz[1] - half
                last_right == points_hz[Len(points_hz)] + half
            IN (IF HasLeadGap(first_left, bs)
                THEN <<LeadFiller(bs, first_left)>> ELSE <<>>)
               \o points_hz
               \o (IF HasTrailGap(last_right, be)
                   THEN <<TrailFiller(be, last_right)>> ELSE <<>>)

\* calculate_tuning_frequencies: [] for an empty band, ValueError for a
\* step that is not positive, else the points.
calculate_tuning_frequencies(bs, be, step, c0) ==
    IF be <= bs THEN [raised |-> FALSE, pts |-> <<>>]
    ELSE IF step <= 0 THEN [raised |-> TRUE, pts |-> <<>>]
    ELSE [raised |-> FALSE, pts |-> TuningPoints(bs, be, step, c0)]

BandInit ==
    /\ b_pc = "in"
    /\ b_bs = 0
    /\ b_be = 0
    /\ b_step = 0
    /\ b_c0 = 0
    /\ b_out = [raised |-> FALSE, pts |-> <<>>]

\* ------------------------------ FlexTransport: deadlines and teardown

\* Faulty variant of DeadlineReached: the wait loop never sees its deadline.
DeadlineNever(left) == FALSE

\* send_command: the loop condition "time.time() < deadline" has become
\* false, left being deadline - time.time() cut at 0.
DeadlineReached(left) == left = 0

CloseInit ==
    /\ t_connected = TRUE
    /\ c_left = [c \in Callers |-> 0]
    /\ at_close = {}

\* -------------------------------- FlexRadioClient: the restore snapshot

\* Slice ids of the radio, and "no slice" (None).
SliceIds == {0, 1}
NoSlice == 0 - 1

\* Modes and frequencies a slice status line can carry; NoMode and NoFreq
\* stand for a field that is absent (None).
SliceModes == {"CW", "USB"}
NoMode == "-"
SliceFreqs == {1, 2}
NoFreq == 0

NoSliceData == [seen |-> FALSE, mode |-> NoMode, freq |-> NoFreq]
NoSnapshot == [taken |-> FALSE, slice_id |-> NoSlice, mode |-> NoMode, freq |-> NoFreq]

\* _choose_slice_id_for_commands
ChooseSliceId ==
    IF tx_slice_id # NoSlice THEN tx_slice_id
    ELSE IF \E i \in SliceIds : slices[i].seen
         THEN CHOOSE i \in SliceIds :
                slices[i].seen /\ \A j \in SliceIds : slices[j].seen => i <= j
         ELSE 0

\* sl.update(data): the fields a line carries replace the mirrored ones.
MergeSlice(sl, data) ==
    [seen |-> TRUE,
     mode |-> IF data.mode # NoMode THEN data.mode ELSE sl.mode,
     freq |-> IF data.freq # NoFreq THEN data.freq ELSE sl.freq]

\* _on_slice: _orig after a line for sid left the mirrored slice as sl.
OnSliceOrig(cur, sid, sl) ==
    LET taken1 == IF ~cur.taken /\ sl.mode # NoMode /\ sl.freq # NoFreq
                  THEN [taken |-> TRUE, slice_id |-> sid,
                        mode |-> sl.mode, freq |-> sl.freq]
                  ELSE cur
    IN IF taken1.taken /\ taken1.freq = NoFreq /\ sl.freq # NoFreq
       THEN [taken1 EXCEPT !.freq = sl.freq]
       ELSE taken1

SnapInit ==
    /\ slices = [i \in SliceIds |-> NoSliceData]
    /\ tx_slice_id = NoSlice
    /\ orig = NoSnapshot
    /\ snap_pc = "idle"
    /\ snap_sid = 0
    /\ snap_mode = NoMode
    /\ snap_freq = NoFreq
    /\ slice_updates = 0
    /\ first_cap = NoSnapshot

\* ---------------------------------------- FlexRadioClient.shutdown

\* What a restore command sent with _send_rc_checked can meet: "ok" (ACK
\* with rc 0), "rc" (ACK with another rc: FlexRadioError), "timeout"
\* (TimeoutError, raised again as FlexRadioError) and "error" (the
\* transport raised: not connected, or the write failed).
RestoreOutcomes == {"ok", "rc", "timeout", "error"}

\* shutdown: "except Exception" around restore_state() catches the exception
\* of a command that met outcome.
RestoreCaught(outcome) == TRUE

ShutInit ==
    /\ sh_pc = "idle"
    /\ sh_restore = TRUE
    /\ sh_cmds = <<>>
    /\ sh_raised = FALSE

\* graceful_exit(..., exit_code: int = 0, ...): the default exit code.
exit_code == 0

\* The handlers under __main__ end with sys.exit(1).
FatalExitCode == 1

ProcInit ==
    /\ m_pc = "setup"
    /\ m_restore = TRUE
    /\ m_rigctld = FALSE
    /\ m_client = FALSE
    /\ m_exc = None
    /\ m_cause = <<>>
    /\ m_shutdown = <<>>
    /\ m_exit_arg = <<>>
    /\ m_status = <<>>

PrepInit ==
    /\ p_pc = "loop"
    /\ p_seg = 1
    /\ p_last_band = 0
    /\ p_auto_cw = TRUE
    /\ p_prep_failed = {}
    /\ p_freq_failed = {}
    /\ p_attempted = {}
    /\ p_exc = None

\* The slices of a wait_for_tx / wait_for_unkey loop before its deadline
\* (wait_tx_timeout_s / wait_step_s in the source).
MaxWaitSlices == 2

\* The plan entries whose PTT cycle the cycle session follows.
MaxCycles == 2

CycleInit ==
    /\ y_pc = "decide"
    /\ y_supported = TRUE
    /\ y_event = FALSE
    /\ y_ptt = FALSE
    /\ y_mode = None
    /\ y_left = 0
    /\ y_calls = {}
    /\ y_acks = 0
    /\ y_used = FALSE
    /\ y_sensed = FALSE
    /\ y_forwarded = <<>>
    /\ y_power_reads = 0
    /\ y_cycles = 0

\* rfpower_value / tunepower_value before a transmit status line: None.
NoPower == 0 - 1

\* No set_* call yet.
NoCall == [op |-> None]

FlexSetInit ==
    /\ x_pc = "idle"
    /\ x_slices = [i \in SliceIds |-> NoSliceData]
    /\ x_tx = NoSlice
    /\ x_rfpower = NoPower
    /\ x_tunepower = NoPower
    /\ x_last = NoCall

\* The largest max_tries argument the verification session draws.
MaxTries == 3

VerifyInit ==
    /\ v_pc = "loop"
    /\ v_expected = 14255000
    /\ v_max = max_tries
    /\ v_reads = <<>>
    /\ v_last_seen = None

PlanInit ==
    /\ g_pc = "in"
    /\ g_link = "rigctl"
    /\ g_band = [bs |-> 7000000, be |-> 7010000, step |-> 2500, c0 |-> 7001250]
    /\ g_pts = <<>>
    /\ g_plan = <<>>
    /\ g_args = <<>>
    /\ g_wire = <<>>

LockInit ==
    /\ k_ptt_active = FALSE
    /\ k_tx_state = "UNKNOWN"
    /\ k_rfpower = NoPower
    /\ k_lines = 0
    /\ k_last = None
    /\ k_got = <<>>

ChanInit ==
    /\ h_slices = [i \in SliceIds |-> NoSliceData]
    /\ h_tx = NoSlice
    /\ h_updates = 0
    /\ h_last_tx = NoSlice
    /\ h_ids = {}
    /\ h_cmd = <<>>

CountInit ==
    /\ n_pc = "plan"
    /\ n_len = PlanLen
    /\ n_selected = 1
    /\ n_seg = 1
    /\ n_last_band = 0
    /\ n_seen_bands = {}
    /\ n_total = 0
    /\ n_started = {}
    /\ n_skipped = {}
    /\ n_report = <<>>

\* No line: the read timed out.
NoLine == [by |-> None, text |-> ""]

ReplyInit ==
    /\ r_pc = [t \in {"fg", "mon"} |-> "idle"]
    /\ r_lock = None
    /\ r_cmd = [t \in {"fg", "mon"} |-> FALSE]
    /\ r_buf = <<>>
    /\ r_first = [t \in {"fg", "mon"} |-> NoLine]
    /\ r_calls = [t \in {"fg", "mon"} |-> 0]
    /\ r_read = {}
    /\ r_ret = {}

StopInit ==
    /\ d_pc = "running"
    /\ d_mon = "check"
    /\ d_lock = None
    /\ d_stop = FALSE
    /\ d_connected = TRUE
    /\ d_open = TRUE
    /\ d_reconnect_once = TRUE
    /\ d_event = TRUE
    /\ d_polls = 0
    /\ d_opens = 0

ExtInit == PlanInit /\ LockInit /\ ChanInit /\ CountInit /\ ReplyInit /\ StopInit

\* The later groups outside the plan session.
PlanRest == LockInit /\ ChanInit /\ CountInit /\ ReplyInit /\ StopInit

\* The later groups outside the interlock session.
LockRest == PlanInit /\ ChanInit /\ CountInit /\ ReplyInit /\ StopInit

\* The later groups outside the channel session.
ChanRest == PlanInit /\ LockInit /\ CountInit /\ ReplyInit /\ StopInit

\* The later groups outside the counting session.
CountRest == PlanInit /\ LockInit /\ ChanInit /\ ReplyInit /\ StopInit

\* The later groups outside the reply session.
ReplyRest == PlanInit /\ LockInit /\ ChanInit /\ CountInit /\ StopInit

\* The later groups outside the disconnect session.
StopRest == PlanInit /\ LockInit /\ ChanInit /\ CountInit /\ ReplyInit

CoreInit == ProcInit /\ PrepInit /\ CycleInit /\ FlexSetInit /\ VerifyInit

PostInit == CoreInit /\ ExtInit

TailInit == ShutInit /\ PostInit

LaterInit == BandInit /\ SnapInit /\ TailInit

RestInit == WaitInit /\ SendInit /\ CloseInit /\ LaterInit

\* --------------------------------------------- set_frequency of the links

\* What a set_frequency call can meet: "ok" (the command was acknowledged),
\* "rejected" (sent, then BaseRadioError: non-zero return code or no ACK) and
\* "error" (the transport raised before the command left).
SetOutcomes == {"ok", "rejected", "error"}

\* RigctlClient.set_frequency: whether the call writes "F <hz>" (it has no
\* comparison with the cached freq_hz).
RigSendsTune(hz, cached) == TRUE

\* FlexRadioClient.set_frequency: whether the call writes "slice tune"; it
\* skips when the mirrored frequency is within 0.00001 MHz (10 Hz).
FlexSendsTune(hz, current) ==
    ~(current # 0 /\ current - hz < 10 /\ hz - current < 10)

\* The frequency a "slice tune <sid> <freq_mhz:.4f>" command carries: the
\* target rounded to 100 Hz.
FlexTuneHz(hz) == ((hz + 50) \div 100) * 100

\* set_frequency(hz) on the link of this run, meeting outcome.
LinkSetFrequency(hz, outcome) ==
    IF radio_type = "rigctl"
    THEN /\ freq_hz' = IF outcome = "ok" THEN hz ELSE freq_hz
         /\ set_calls' = Append(set_calls,
                [hz |-> hz, ok |-> (outcome = "ok"),
                 sent |-> (RigSendsTune(hz, freq_hz) /\ outcome # "error")])
         /\ UNCHANGED <<slice_freq, status_q>>
    ELSE /\ IF FlexSendsTune(hz, slice_freq)
            THEN /\ set_calls' = Append(set_calls,
                        [hz |-> hz, ok |-> (outcome = "ok"),
                         sent |-> (outcome # "error")])
                 /\ status_q' = IF outcome = "ok"
                                THEN Append(status_q, FlexTuneHz(hz))
                                ELSE status_q
            ELSE /\ set_calls' = Append(set_calls,
                        [hz |-> hz, ok |-> TRUE, sent |-> FALSE])
                 /\ UNCHANGED status_q
         /\ UNCHANGED <<freq_hz, slice_freq>>

\* Whether set_frequency(hz) meeting outcome returns normally.
LinkSetReturns(hz, outcome) ==
    IF radio_type = "rigctl"
    THEN outcome = "ok"
    ELSE ~FlexSendsTune(hz, slice_freq) \/ outcome = "ok"

\* What a command sent by a set_* call can meet. FlexRadioClient, through
\* _send_rc_checked and FlexTransport.send_command: "ok", "rc" (ACK with a
\* non-zero rc), "ack_timeout", "not_connected" (connected is false or the
\* socket is gone) and "send_failed" (sendall raised). RigctlClient, through
\* _send: "ok", "reconnect_failed" (the write failed and _reconnect raised)
\* and "retry_failed" (the write failed again after the reconnect).
CommandOutcomes(link) ==
    IF link = "flex"
    THEN {"ok", "rc", "ack_timeout", "not_connected", "send_failed"}
    ELSE {"ok", "reconnect_failed", "retry_failed"}

\* The class of the exception a set_* call raises on outcome, None when it
\* returns. _send_rc_checked turns TimeoutError and a non-zero rc into
\* FlexRadioError and lets everything else through; _send and _reconnect
\* raise RigctlError.
RaisedBy(link, outcome) ==
    CASE outcome = "ok" -> None
      [] outcome \in {"rc", "ack_timeout"} -> "FlexRadioError"
      [] outcome = "not_connected" -> "ConnectionError"
      [] outcome = "send_failed" -> "OSError"
      [] outcome \in {"reconnect_failed", "retry_failed"} -> "RigctlError"

\* class RigctlError(BaseRadioError), class FlexRadioError(BaseRadioError)
IsBaseRadioError(exc) == exc \in {"RigctlError", "FlexRadioError"}

\* Faulty variant of SequencerCatches: only the event-driven link's error
\* class is caught.
SequencerCatchesFlexOnly(exc) == exc = "FlexRadioError"

\* except BaseRadioError around the band preparation and around set_frequency
SequencerCatches(exc) == IsBaseRadioError(exc)

\* RigctlClient.set_drive_power only logs a warning; FlexRadioClient's sends
\* "transmit set tunepower=.. rfpower=..".
DrivePowerOutcomes(link) ==
    IF link = "flex" THEN CommandOutcomes(link) ELSE {"ok"}

\* The class of the exception set_frequency raises on a SetOutcomes outcome
\* that does not return: "rejected" is RigctlError or FlexRadioError, "error"
\* is RigctlError on the polling link (_send, _reconnect) and the transport's
\* ConnectionError or OSError on the event-driven link.
SetRaises(link, outcome) ==
    IF link = "rigctl" THEN "RigctlError"
    ELSE IF outcome = "rejected" THEN "FlexRadioError" ELSE "ConnectionError"

\* FlexRadioClient._on_slice: the listener merges a slice status line.
FlexSliceEffect ==
    /\ status_q # <<>>
    /\ slice_freq' = Head(status_q)
    /\ status_q' = Tail(status_q)
    /\ UNCHANGED <<freq_hz, set_calls>>

LinkInit ==
    /\ freq_hz = 0
    /\ slice_freq = 0
    /\ status_q = <<>>
    /\ set_calls = <<>>

\* ------------------------------------------------------------- the plan

\* The plan built from calculate_tuning_frequencies: (band_label, freq_mhz),
\* ordered by band; here two entries per band, in Hz.
PlanBand(i) == (i + 1) \div 2
PlanHz(i) == 7000500 + (i * 2500)
PlanIdx == 1..PlanLen

\* ------------------------------------------- amplifier (rf2ks_client.py)

\* Faulty variant of TruncateToKhz: to the nearest kHz boundary.
RoundToKhz(hz) == IF hz < 0 THEN 0 ELSE ((hz + 500) \div 1000) * 1000

\* _truncate_to_khz
TruncateToKhz(hz) == IF hz < 0 THEN 0 ELSE (hz \div 1000) * 1000

\* One read of /data, normalised to Hz by _normalize_hz: ok is FALSE for a
\* failed or unparseable read (hz None), else hz is what the amplifier reports.
AmpReads(expected_hz) ==
    {[ok |-> FALSE, hz |-> 0]} \cup
    {[ok |-> TRUE, hz |-> h] :
        h \in {expected_hz, expected_hz + 499, expected_hz - 1, expected_hz + 1000}}

\* Faulty variant of ReadMatches: the two values are rounded to the nearest kHz.
ReadMatchesRounded(rd, expected_hz) ==
    rd.ok /\ (rd.hz + 500) \div 1000 = (expected_hz + 500) \div 1000

\* verify_frequency_match: whether one read ends the call with success.
ReadMatches(rd, expected_hz) ==
    rd.ok /\ TruncateToKhz(rd.hz) = TruncateToKhz(expected_hz)

\* _should_verify_freq (tuning_loop.py) / amp_settings.enabled (main.py)
VerifyEnabled ==
    IF variant = "tuning_loop"
    THEN amp_enabled /\ is_cat /\ ~dummy
    ELSE amp_enabled

\* Faulty variant of VerifyExhaustedNext: the exception is logged and swallowed.
VerifyExhaustedContinues == "decide"

\* Where the loop goes when verify_frequency_match raised: the exception
\* leaves run_tuning_loop (FatalFrequencyMismatch / RF2KSClientError).
VerifyExhaustedNext == "aborted"

\* ------------------------------------------------- run_tuning_loop, main

\* getattr(radio_client, "supports_event_ptt", False): FlexRadioClient has
\* no such attribute.
EventFlag == IF radio_type = "flex" THEN FALSE ELSE supports_event_ptt

\* "Decide PTT path": tuning_loop.py 212-290, main.py 848-881. local is the
\* value of ptt_supported read into the local variable, supported the value
\* the is_event line reads.
SelectMode(v, local, supported, event) ==
    IF v = "tuning_loop"
    THEN IF supported /\ event THEN "EventDriven"
         ELSE IF ~local THEN "Manual" ELSE "Polling"
    ELSE IF local THEN "EventDriven"
         ELSE IF ~local THEN "Manual" ELSE "Polling"

NextEntry ==
    /\ seg' = seg + 1
    /\ pc' = "loop"

SeqInit ==
    /\ pc = "connect"
    /\ seg = 1
    /\ last_band = 0
    /\ tries = 0
    /\ mode = None
    /\ prev_mode = None
    /\ ptt_local = TRUE
    /\ used_auto_ptt = FALSE
    /\ total_segments = 0
    /\ seg_started = {}
    /\ freq_set = {}
    /\ last_seen = 0
    /\ tx_timed_out = FALSE
    /\ ptt_started = {}
    /\ verify_failed = 0

CfgInit ==
    /\ variant \in {"tuning_loop", "main"}
    /\ radio_type \in {"rigctl", "flex"}
    /\ dummy \in BOOLEAN
    /\ (radio_type = "flex" => ~dummy)
    /\ amp_enabled \in BOOLEAN
    /\ is_cat \in BOOLEAN
    /\ force_manual \in BOOLEAN

\* main(): radio_client.connect()
MainConnect ==
    /\ pc = "connect"
    /\ UNCHANGED ptt_local
    /\ \/ /\ IF radio_type = "rigctl" THEN ConnectEffect ELSE FlexConnectEffect
          /\ pc' = "probe"
       \/ /\ pc' = "exit"
          /\ UNCHANGED rigVars
    /\ UNCHANGED <<cfgVars, restVars, ackVars, linkVars, seg, last_band, tries, mode, prev_mode, used_auto_ptt,
                   total_segments, seg_started, freq_set, last_seen, tx_timed_out,
                   ptt_started, verify_failed>>

\* main(): one-time PTT capability detection (main.py 1054-1066)
MainProbe ==
    /\ pc = "probe"
    /\ UNCHANGED ptt_local
    /\ pc' = "loop"
    /\ IF radio_type = "rigctl"
       THEN IF dummy
            THEN /\ ptt_supported' = FALSE
                 /\ UNCHANGED <<supports_event_ptt, ptt_active, evt_alive,
                                reconnect_once, connected, saw_rprt11,
                                evt_disabled, bool_after_rprt11>>
            ELSE \E r \in SendOutcomes :
                    IF r = "ERR" THEN UNCHANGED rigVars ELSE GetPttEffect(r)
       ELSE UNCHANGED rigVars
    /\ UNCHANGED <<cfgVars, restVars, ackVars, linkVars, seg, last_band, tries, mode, prev_mode, used_auto_ptt,
                   total_segments, seg_started, freq_set, last_seen, tx_timed_out,
                   ptt_started, verify_failed>>

\* Loop head and the new-band setup: set_mode / set_drive_power may raise
\* BaseRadioError, which skips the entry.
BandPrep ==
    /\ pc = "loop"
    /\ UNCHANGED ptt_local
    /\ seg <= PlanLen
    /\ seg_started' = seg_started \cup {seg}
    /\ IF PlanBand(seg) # last_band
       THEN \/ /\ last_band' = PlanBand(seg)
               /\ \/ pc' = "set_freq" /\ seg' = seg
                  \/ NextEntry
            \/ /\ \E outcome \in CommandOutcomes(radio_type) :
                    /\ RaisedBy(radio_type, outcome) # None
                    /\ ~SequencerCatches(RaisedBy(radio_type, outcome))
               /\ pc' = "aborted"
               /\ UNCHANGED <<last_band, seg>>
       ELSE /\ pc' = "set_freq"
            /\ UNCHANGED <<last_band, seg>>
    /\ UNCHANGED <<cfgVars, restVars, ackVars, linkVars, rigVars, tries, mode, prev_mode, used_auto_ptt,
                   total_segments, freq_set, last_seen, tx_timed_out, ptt_started,
                   verify_failed>>

\* radio_client.set_frequency(freq_mhz); BaseRadioError skips the entry, and
\* another exception leaves run_tuning_loop.
SetFrequency ==
    /\ pc = "set_freq"
    /\ UNCHANGED ptt_local
    /\ \E outcome \in SetOutcomes :
         /\ LinkSetFrequency(PlanHz(seg), outcome)
         /\ IF LinkSetReturns(PlanHz(seg), outcome)
            THEN /\ freq_set' = freq_set \cup {seg}
                 /\ pc' = IF VerifyEnabled THEN "verify" ELSE "decide"
                 /\ seg' = seg
            ELSE /\ IF SequencerCatches(SetRaises(radio_type, outcome))
                    THEN NextEntry
                    ELSE pc' = "aborted" /\ seg' = seg
                 /\ UNCHANGED freq_set
    /\ tries' = 0
    /\ last_seen' = 0
    /\ UNCHANGED <<cfgVars, restVars, ackVars, rigVars, last_band, mode, prev_mode, used_auto_ptt,
                   total_segments, seg_started, ptt_started, verify_failed,
                   tx_timed_out>>

\* One iteration of verify_frequency_match's for-loop; the last one without
\* a match raises.
VerifyRead ==
    /\ pc = "verify"
    /\ UNCHANGED ptt_local
    /\ tries < max_tries
    /\ \E rd \in AmpReads(PlanHz(seg)) :
         IF ReadMatches(rd, PlanHz(seg))
         THEN /\ last_seen' = rd.hz
              /\ pc' = "decide"
              /\ UNCHANGED <<tries, verify_failed>>
         ELSE /\ last_seen' = IF rd.ok THEN rd.hz ELSE last_seen
              /\ tries' = tries + 1
              /\ IF tries + 1 >= max_tries
                 THEN /\ verify_failed' = seg
                      /\ pc' = VerifyExhaustedNext
                 ELSE UNCHANGED <<pc, verify_failed>>
    /\ UNCHANGED <<cfgVars, restVars, ackVars, linkVars, rigVars, seg, last_band, mode, prev_mode,
                   used_auto_ptt, total_segments, seg_started, freq_set,
                   ptt_started, tx_timed_out>>

\* ptt_supported = getattr(radio_client, "ptt_supported", True)
ReadPttSupported ==
    /\ pc = "decide"
    /\ pc' = "select"
    /\ ptt_local' = ptt_supported
    /\ used_auto_ptt' = FALSE
    /\ UNCHANGED <<cfgVars, restVars, ackVars, linkVars, rigVars, seg, last_band, tries,
                   mode, prev_mode, total_segments, seg_started, freq_set,
                   last_seen, tx_timed_out, ptt_started, verify_failed>>

\* "Decide PTT path" for the entry: the if / elif / else on is_event and the
\* local ptt_supported (in main.py's copy on the local alone).
DecidePtt ==
    /\ pc = "select"
    /\ ptt_started' = ptt_started \cup {seg}
    /\ prev_mode' = mode
    /\ mode' = SelectMode(variant, ptt_local, ptt_supported, EventFlag)
    /\ pc' = CASE mode' = "EventDriven" -> "wait_tx"
               [] mode' = "Manual" -> "manual_key"
               [] OTHER -> "poll_tx"
    /\ UNCHANGED <<cfgVars, restVars, ackVars, linkVars, rigVars, seg, last_band, tries,
                   ptt_local, used_auto_ptt, total_segments, seg_started,
                   freq_set, last_seen, tx_timed_out, verify_failed>>

\* EVENT-DRIVEN: wait_for_tx in slices until the deadline; a timeout skips
\* the entry.
WaitTx ==
    /\ pc = "wait_tx"
    /\ UNCHANGED ptt_local
    /\ \/ /\ ptt_active
          /\ pc' = "wait_unkey"
          /\ UNCHANGED <<seg, tx_timed_out>>
       \/ /\ NextEntry
          /\ tx_timed_out' = TRUE
    /\ UNCHANGED <<cfgVars, restVars, ackVars, linkVars, rigVars, last_band, tries, mode, prev_mode,
                   used_auto_ptt, total_segments, seg_started, freq_set,
                   last_seen, ptt_started, verify_failed>>

\* EVENT-DRIVEN: wait_for_unkey in slices until the deadline; a timeout
\* continues with used_auto_ptt False.
WaitUnkey ==
    /\ pc = "wait_unkey"
    /\ UNCHANGED ptt_local
    /\ \/ /\ ~ptt_active
          /\ used_auto_ptt' = TRUE
       \/ used_auto_ptt' = FALSE
    /\ pc' = "log"
    /\ UNCHANGED <<cfgVars, restVars, ackVars, linkVars, rigVars, seg, last_band, tries, mode, prev_mode,
                   total_segments, seg_started, freq_set, last_seen, tx_timed_out,
                   ptt_started, verify_failed>>

\* MANUAL: the operator's two ENTERs.
ManualKey ==
    /\ pc = "manual_key"
    /\ UNCHANGED ptt_local
    /\ pc' = "manual_unkey"
    /\ UNCHANGED <<cfgVars, restVars, ackVars, linkVars, rigVars, seg, last_band, tries, mode, prev_mode,
                   used_auto_ptt, total_segments, seg_started, freq_set,
                   last_seen, tx_timed_out, ptt_started, verify_failed>>

ManualUnkey ==
    /\ pc = "manual_unkey"
    /\ UNCHANGED ptt_local
    /\ pc' = "log"
    /\ UNCHANGED <<cfgVars, restVars, ackVars, linkVars, rigVars, seg, last_band, tries, mode, prev_mode,
                   used_auto_ptt, total_segments, seg_started, freq_set,
                   last_seen, tx_timed_out, ptt_started, verify_failed>>

\* One get_ptt() of the POLLING loops: whether it raised BaseRadioError
\* (which the loop logs and retries), the value returned, and the link's
\* change. FlexRadioClient.get_ptt returns the mirrored flag.
PollGetPtt(r, raised, value) ==
    IF radio_type = "rigctl"
    THEN /\ r \in SendOutcomes
         /\ raised = (r = "ERR")
         /\ IF r = "ERR"
            THEN value = FALSE /\ UNCHANGED rigVars
            ELSE value = GetPttValue(r) /\ GetPttEffect(r)
    ELSE /\ r = None
         /\ raised = FALSE
         /\ value = ptt_active
         /\ UNCHANGED rigVars

\* POLLING: while True: if get_ptt(): break
PollTx ==
    /\ pc = "poll_tx"
    /\ UNCHANGED ptt_local
    /\ \E r \in SendOutcomes \cup {None}, raised \in BOOLEAN, value \in BOOLEAN :
         /\ PollGetPtt(r, raised, value)
         /\ pc' = IF ~raised /\ value THEN "poll_unkey" ELSE "poll_tx"
    /\ UNCHANGED <<cfgVars, restVars, ackVars, linkVars, seg, last_band, tries, mode, prev_mode,
                   used_auto_ptt, total_segments, seg_started, freq_set,
                   last_seen, tx_timed_out, ptt_started, verify_failed>>

\* POLLING: while True: if not get_ptt(): break
PollUnkey ==
    /\ pc = "poll_unkey"
    /\ UNCHANGED ptt_local
    /\ \E r \in SendOutcomes \cup {None}, raised \in BOOLEAN, value \in BOOLEAN :
         /\ PollGetPtt(r, raised, value)
         /\ IF ~raised /\ ~value
            THEN pc' = "log" /\ used_auto_ptt' = TRUE
            ELSE UNCHANGED <<pc, used_auto_ptt>>
    /\ UNCHANGED <<cfgVars, restVars, ackVars, linkVars, seg, last_band, tries, mode, prev_mode,
                   total_segments, seg_started, freq_set, last_seen, tx_timed_out,
                   ptt_started, verify_failed>>

\* rf2ks.log_tuner_data(used_auto_ptt); total_segments += 1
LogSegment ==
    /\ pc = "log"
    /\ UNCHANGED ptt_local
    /\ total_segments' = total_segments + 1
    /\ NextEntry
    /\ UNCHANGED <<cfgVars, restVars, ackVars, linkVars, rigVars, last_band, tries, mode, prev_mode,
                   used_auto_ptt, seg_started, freq_set, last_seen, tx_timed_out,
                   ptt_started, verify_failed>>

\* The plan is exhausted: the summary, then main()'s finally.
Summary ==
    /\ pc = "loop"
    /\ UNCHANGED ptt_local
    /\ seg > PlanLen
    /\ pc' = "exit"
    /\ UNCHANGED <<cfgVars, restVars, ackVars, linkVars, rigVars, seg, last_band, tries, mode, prev_mode,
                   used_auto_ptt, total_segments, seg_started, freq_set,
                   last_seen, tx_timed_out, ptt_started, verify_failed>>

\* main()'s finally: graceful_exit -> radio_client.shutdown(restore).
GracefulExit ==
    /\ pc \in {"exit", "aborted"}
    /\ UNCHANGED ptt_local
    /\ pc' = "done"
    /\ ShutdownEffect
    /\ UNCHANGED <<cfgVars, restVars, ackVars, linkVars, seg, last_band, tries, mode, prev_mode,
                   used_auto_ptt, total_segments, seg_started, freq_set,
                   last_seen, tx_timed_out, ptt_started, verify_failed>>

\* The background monitor thread of the polling link.
PttMonitor ==
    /\ radio_type = "rigctl"
    /\ \/ \E r \in Replies : PollerReply(r)
       \/ \E ok \in BOOLEAN : PollerError(ok)
    /\ UNCHANGED <<cfgVars, restVars, ackVars, linkVars, seqVars>>

\* The listener thread of the event-driven link delivers an interlock line
\* or a slice status line.
FlexListener ==
    /\ radio_type = "flex"
    /\ connected
    /\ \/ /\ \E st \in InterlockStates : FlexInterlockEffect(st)
          /\ UNCHANGED linkVars
       \/ /\ FlexSliceEffect
          /\ UNCHANGED rigVars
    /\ UNCHANGED <<cfgVars, restVars, ackVars, seqVars>>

Init == CfgInit /\ SeqInit /\ RigInit /\ LinkInit /\ AckInit /\ RestInit

Next ==
    \/ MainConnect
    \/ MainProbe
    \/ BandPrep
    \/ SetFrequency
    \/ VerifyRead
    \/ ReadPttSupported
    \/ DecidePtt
    \/ WaitTx
    \/ WaitUnkey
    \/ ManualKey
    \/ ManualUnkey
    \/ PollTx
    \/ PollUnkey
    \/ LogSegment
    \/ Summary
    \/ GracefulExit
    \/ PttMonitor
    \/ FlexListener

Spec == Init /\ [][Next]_vars


\* ------------------------------------------- the links, called by any client

\* The frequencies a client asks for: a plan frequency, one 5 Hz above it
\* and the next plan frequency.
ApiFreqs == {PlanHz(1), PlanHz(1) + 5, PlanHz(2)}

\* A session of one link whose public operations are called in any order;
\* the sequencer does not run (pc keeps its initial value).
LinkSessionInit ==
    /\ variant = "tuning_loop"
    /\ radio_type \in {"rigctl", "flex"}
    /\ dummy = FALSE
    /\ amp_enabled = FALSE
    /\ is_cat = FALSE
    /\ force_manual = FALSE
    /\ SeqInit
    /\ RigInit
    /\ LinkInit
    /\ AckInit
    /\ RestInit

\* connect() of the link; _connect may raise before the monitor is started.
ApiConnect ==
    /\ \/ IF radio_type = "rigctl" THEN ConnectEffect ELSE FlexConnectEffect
       \/ UNCHANGED rigVars
    /\ UNCHANGED <<cfgVars, restVars, ackVars, seqVars, linkVars>>

\* RigctlClient.get_ptt()
ApiGetPtt ==
    /\ radio_type = "rigctl"
    /\ connected
    /\ \E r \in SendOutcomes :
         IF r = "ERR" THEN UNCHANGED rigVars ELSE GetPttEffect(r)
    /\ UNCHANGED <<cfgVars, restVars, ackVars, seqVars, linkVars>>

\* set_frequency(freq_mhz) of the link
ApiSetFrequency ==
    /\ connected
    /\ Len(set_calls) < MaxSetCalls
    /\ \E hz \in ApiFreqs, outcome \in SetOutcomes : LinkSetFrequency(hz, outcome)
    /\ UNCHANGED <<cfgVars, restVars, ackVars, seqVars, rigVars>>

InitLink == LinkSessionInit

NextLink ==
    \/ ApiConnect
    \/ ApiGetPtt
    \/ ApiSetFrequency
    \/ PttMonitor
    \/ FlexListener

SpecLink == InitLink /\ [][NextLink]_vars


\* ------------------------------- FlexTransport, called by several threads

\* The transport is connected and its listener runs; the sequencer and the
\* polling link do not run (pc keeps its initial value).
AckSessionInit ==
    /\ variant = "tuning_loop"
    /\ radio_type = "flex"
    /\ dummy = FALSE
    /\ amp_enabled = FALSE
    /\ is_cat = FALSE
    /\ force_manual = FALSE
    /\ SeqInit
    /\ RigInit
    /\ LinkInit
    /\ AckInit
    /\ RestInit

\* send_command up to the wait: _next_seq, then sendall (which may raise).
SendCommand(c) ==
    /\ caller[c].st # "waiting"
    /\ next_seq <= MaxCmds
    /\ next_seq' = next_seq + 1
    /\ \E sent \in BOOLEAN :
         caller' = [caller EXCEPT ![c] =
                      [st |-> IF sent THEN "waiting" ELSE "raised",
                       seq |-> next_seq, got |-> <<>>, skipped |-> FALSE]]
    /\ UNCHANGED <<peer_lines, resp_q, scen>>
    /\ UNCHANGED <<cfgVars, restVars, seqVars, rigVars, linkVars>>

\* One iteration of the wait loop whose _resp_q.get returned a line.
TakeResponse(c) ==
    /\ caller[c].st = "waiting"
    /\ resp_q # <<>>
    /\ resp_q' = Tail(resp_q)
    /\ caller' = [caller EXCEPT ![c] =
                    IF AckMatches(Head(resp_q), caller[c].seq)
                    THEN [@ EXCEPT !.st = "returned", !.got = Head(resp_q)]
                    ELSE [@ EXCEPT !.skipped = TRUE]]
    /\ UNCHANGED <<next_seq, peer_lines, scen>>
    /\ UNCHANGED <<cfgVars, restVars, seqVars, rigVars, linkVars>>

\* The deadline passed: TimeoutError. A call that gives up with a line
\* in the queue, or before its own ACK was queued, leaves the scenario.
AckTimeout(c) ==
    /\ caller[c].st = "waiting"
    /\ caller' = [caller EXCEPT ![c].st = "timeout"]
    /\ scen' = IF /\ scen # Off
                  /\ resp_q = <<>>
                  /\ \E i \in 1..scen : ScenOrder[i] = caller[c].seq
               THEN scen ELSE Off
    /\ UNCHANGED <<next_seq, peer_lines, resp_q>>
    /\ UNCHANGED <<cfgVars, restVars, seqVars, rigVars, linkVars>>

\* The scenario after line was queued: the first ACK finds calls 1, 2 and 3
\* waiting, and the ACKs come in ScenOrder with no other line between.
ScenAfter(line) ==
    IF /\ scen # Off
       /\ scen < Len(ScenOrder)
       /\ line = AckLine(ScenOrder[scen + 1])
       /\ (scen = 0 => \A n \in 1..3 : \E c \in Callers :
                          caller[c].st = "waiting" /\ caller[c].seq = n)
    THEN scen + 1
    ELSE Off

\* _listener_loop, one line the radio wrote: ACKs go to _resp_q (dropped
\* when it is full), every line goes to the callback.
ListenerLine ==
    /\ peer_lines < MaxPeerLines
    /\ peer_lines' = peer_lines + 1
    /\ \E line \in PeerLines :
         IF IsAck(line) /\ Len(resp_q) < resp_q_maxsize
         THEN /\ resp_q' = Append(resp_q, line)
              /\ scen' = ScenAfter(line)
         ELSE UNCHANGED <<resp_q, scen>>
    /\ UNCHANGED <<next_seq, caller>>
    /\ UNCHANGED <<cfgVars, restVars, seqVars, rigVars, linkVars>>

InitAck == AckSessionInit

NextAck ==
    \/ \E c \in Callers : SendCommand(c)
    \/ \E c \in Callers : TakeResponse(c)
    \/ \E c \in Callers : AckTimeout(c)
    \/ ListenerLine

SpecAck == InitAck /\ [][NextAck]_vars


\* ------------------------- wait_for_tx / wait_for_unkey, called on a link

\* A connected link whose background thread runs (the monitor of the polling
\* link, the listener of the event-driven link); the sequencer does not run.
WaitSessionInit ==
    /\ variant = "tuning_loop"
    /\ radio_type \in {"rigctl", "flex"}
    /\ dummy = FALSE
    /\ amp_enabled = FALSE
    /\ is_cat = FALSE
    /\ force_manual = FALSE
    /\ SeqInit
    /\ ptt_supported = TRUE
    /\ supports_event_ptt = (radio_type = "rigctl")
    /\ ptt_active \in BOOLEAN
    /\ evt_alive = (radio_type = "rigctl")
    /\ reconnect_once = TRUE
    /\ connected = TRUE
    /\ saw_rprt11 = FALSE
    /\ evt_disabled = FALSE
    /\ bool_after_rprt11 = FALSE
    /\ LinkInit
    /\ AckInit
    /\ WaitInit
    /\ SendInit
    /\ CloseInit
    /\ LaterInit

\* wait_for_tx(timeout) / wait_for_unkey(timeout) is called: the deadline is
\* computed.
WaitCall ==
    /\ w_pc \in {"idle", "returned"}
    /\ \E kind \in {"tx", "unkey"}, timeout \in 0..MaxTimeout :
         /\ now + timeout + Slice <= MaxTime
         /\ w_kind' = kind
         /\ w_deadline' = now + timeout
         /\ w_active_before' = (ptt_active = Wanted(kind))
    /\ w_pc' = "check"
    /\ w_wake' = 0
    /\ UNCHANGED <<now, w_result, w_ret_time, w_ret_level>>
    /\ UNCHANGED <<cfgVars, seqVars, rigVars, linkVars, ackVars, sendVars, closeVars, laterVars>>

\* The loop test and its body up to the wait, or the return after the loop.
WaitCheck ==
    /\ w_pc = "check"
    /\ IF now < w_deadline
       THEN IF ptt_active = Wanted(w_kind)
            THEN /\ w_pc' = "returned"
                 /\ w_result' = TRUE
                 /\ w_ret_time' = now
                 /\ w_ret_level' = (ptt_active = Wanted(w_kind))
                 /\ UNCHANGED w_wake
            ELSE /\ w_pc' = "sleeping"
                 /\ w_wake' = now + SliceWait(w_deadline - now)
                 /\ UNCHANGED <<w_result, w_ret_time, w_ret_level>>
       ELSE /\ w_pc' = "returned"
            /\ w_result' = FinalResult(ptt_active = Wanted(w_kind))
            /\ w_ret_time' = now
            /\ w_ret_level' = (ptt_active = Wanted(w_kind))
            /\ UNCHANGED w_wake
    /\ UNCHANGED <<now, w_kind, w_deadline, w_active_before>>
    /\ UNCHANGED <<cfgVars, seqVars, rigVars, linkVars, ackVars, sendVars, closeVars, laterVars>>

\* The wait of one slice ends: the condition wait of the polling link returns
\* at its timeout or earlier (notify_all on an edge), the sleep of the
\* event-driven link at its end.
WaitWake ==
    /\ w_pc = "sleeping"
    /\ (radio_type = "flex" => now = w_wake)
    /\ w_pc' = "check"
    /\ UNCHANGED <<now, w_kind, w_deadline, w_wake, w_result, w_ret_time,
                   w_ret_level, w_active_before>>
    /\ UNCHANGED <<cfgVars, seqVars, rigVars, linkVars, ackVars, sendVars, closeVars, laterVars>>

\* Time passes; a wait does not outlast its slice.
Tick ==
    /\ now < MaxTime
    /\ w_pc # "check"
    /\ (w_pc = "sleeping" => now < w_wake)
    /\ now' = now + 1
    /\ w_active_before' = ActiveBefore(ptt_active, now + 1)
    /\ UNCHANGED <<w_pc, w_kind, w_deadline, w_wake, w_result, w_ret_time,
                   w_ret_level>>
    /\ UNCHANGED <<cfgVars, seqVars, rigVars, linkVars, ackVars, sendVars, closeVars, laterVars>>

\* The background thread stores a PTT state: _set_ptt_state from the monitor
\* loop, _on_interlock from the listener.
LinkPttUpdate ==
    /\ IF radio_type = "rigctl"
       THEN \E r \in Replies : PollerReply(r)
       ELSE \E st \in InterlockStates : FlexInterlockEffect(st)
    /\ w_active_before' = ActiveBefore(ptt_active', now)
    /\ UNCHANGED <<now, w_pc, w_kind, w_deadline, w_wake, w_result, w_ret_time,
                   w_ret_level>>
    /\ UNCHANGED <<cfgVars, seqVars, linkVars, ackVars, sendVars, closeVars, laterVars>>

InitWait == WaitSessionInit

NextWait ==
    \/ WaitCall
    \/ WaitCheck
    \/ WaitWake
    \/ Tick
    \/ LinkPttUpdate

SpecWait == InitWait /\ [][NextWait]_vars


\* ------------------- RigctlClient._send, called by two threads of a link

\* A connected rigctl link with its monitor thread running.
SendSessionInit ==
    /\ variant = "tuning_loop"
    /\ radio_type = "rigctl"
    /\ dummy = FALSE
    /\ amp_enabled = FALSE
    /\ is_cat = FALSE
    /\ force_manual = FALSE
    /\ SeqInit
    /\ ptt_supported = TRUE
    /\ supports_event_ptt = TRUE
    /\ ptt_active = FALSE
    /\ evt_alive = TRUE
    /\ reconnect_once = TRUE
    /\ connected = TRUE
    /\ saw_rprt11 = FALSE
    /\ evt_disabled = FALSE
    /\ bool_after_rprt11 = FALSE
    /\ LinkInit
    /\ AckInit
    /\ WaitInit
    /\ SendInit
    /\ CloseInit
    /\ LaterInit

\* The history of a thread's call starts again.
ResetCall(t) ==
    /\ s_sends' = [s_sends EXCEPT ![t] = 0]
    /\ s_fails' = [s_fails EXCEPT ![t] = 0]
    /\ s_reconn' = [s_reconn EXCEPT ![t] = 0]
    /\ s_rfail' = [s_rfail EXCEPT ![t] = FALSE]

\* self.lock after a step of thread t that leads to position to: the with
\* block is left when _send returns or raises.
LockAfter(t, to) == IF to \in {"try2", "reconnect"} THEN t ELSE None

\* What the caller of _send does with the exception that leaves it: the
\* one-shot operations do not catch it, set_frequency leaves its cache.
SendRaises(t) ==
    /\ IF t = "fg" /\ s_op = "set_frequency"
       THEN LinkSetFrequency(PlanHz(1), "error")
       ELSE UNCHANGED linkVars

\* What the caller of _send does with the line it returns (the rig part is
\* stated by the step that calls this, with connected).
SendReturns(t, r) ==
    /\ IF t = "fg" /\ s_op = "set_frequency"
       THEN LinkSetFrequency(PlanHz(1), "ok")
       ELSE UNCHANGED linkVars
    /\ IF t = "mon"
       THEN PollerReply(r)
       ELSE IF s_op = "get_ptt" THEN GetPttEffect(r) ELSE UNCHANGED rigVars
    /\ s_pc' = [s_pc EXCEPT ![t] =
                  IF t = "fg" THEN "ret"
                  ELSE IF IsRprt11(r) THEN "stopped" ELSE "idle"]
    /\ s_lock' = None

\* get_ptt(), set_frequency() or set_mode() is called on the foreground
\* thread.
OpCall ==
    /\ s_pc["fg"] \in {"idle", "ret", "raised"}
    /\ \E op \in OneShotOps :
         /\ op = "set_frequency" => Len(set_calls) < MaxSetCalls
         /\ s_op' = op
    /\ s_pc' = [s_pc EXCEPT !["fg"] = "try1"]
    /\ ResetCall("fg")
    /\ UNCHANGED <<s_lock, mon_errors, mon_loop_reconn>>
    /\ UNCHANGED <<cfgVars, seqVars, rigVars, linkVars, ackVars, waitVars, closeVars, laterVars>>

\* _ptt_monitor_loop: an iteration starts, _send("t") is called.
MonPoll ==
    /\ evt_alive
    /\ s_pc["mon"] = "idle"
    /\ s_pc' = [s_pc EXCEPT !["mon"] = "try1"]
    /\ ResetCall("mon")
    /\ UNCHANGED <<s_op, s_lock, mon_errors, mon_loop_reconn>>
    /\ UNCHANGED <<cfgVars, seqVars, rigVars, linkVars, ackVars, waitVars, closeVars, laterVars>>

\* _send: the lock is taken, the command is written and a line is read;
\* "ERR" stands for a write or read that raises.
SendTry1(t) ==
    /\ s_pc[t] = "try1"
    /\ s_lock = None
    /\ s_sends' = [s_sends EXCEPT ![t] = @ + 1]
    /\ \E r \in SendOutcomes :
         IF r = "ERR"
         THEN /\ s_fails' = [s_fails EXCEPT ![t] = @ + 1]
              /\ s_pc' = [s_pc EXCEPT ![t] = "reconnect"]
              /\ s_lock' = t
              /\ UNCHANGED <<rigVars, linkVars>>
         ELSE /\ SendReturns(t, r)
              /\ UNCHANGED s_fails
    /\ UNCHANGED <<s_op, s_reconn, s_rfail, mon_errors, mon_loop_reconn>>
    /\ UNCHANGED <<cfgVars, seqVars, ackVars, waitVars, closeVars, laterVars>>

\* _send: self._reconnect() after the first attempt raised; when it raises,
\* its RigctlError leaves _send.
SendReconnect(t) ==
    /\ s_pc[t] = "reconnect"
    /\ s_lock = t
    /\ s_reconn' = [s_reconn EXCEPT ![t] = @ + 1]
    /\ \E ok \in BOOLEAN :
         /\ connected' = ok
         /\ s_rfail' = [s_rfail EXCEPT ![t] = @ \/ ~ok]
         /\ LET pc2 == IF ok THEN "try2" ELSE AfterReconnectFails
            IN /\ s_pc' = [s_pc EXCEPT ![t] = pc2]
               /\ s_lock' = LockAfter(t, pc2)
         /\ IF ok THEN UNCHANGED linkVars ELSE SendRaises(t)
    /\ UNCHANGED <<ptt_supported, supports_event_ptt, ptt_active, evt_alive,
                   reconnect_once, saw_rprt11, evt_disabled, bool_after_rprt11>>
    /\ UNCHANGED <<s_op, s_sends, s_fails, mon_errors, mon_loop_reconn>>
    /\ UNCHANGED <<cfgVars, seqVars, ackVars, waitVars, closeVars, laterVars>>

\* _send: the single retry after the reconnect.
SendTry2(t) ==
    /\ s_pc[t] = "try2"
    /\ s_lock = t
    /\ s_sends' = [s_sends EXCEPT ![t] = @ + 1]
    /\ \E r \in SendOutcomes :
         IF r = "ERR"
         THEN /\ s_fails' = [s_fails EXCEPT ![t] = @ + 1]
              /\ s_pc' = [s_pc EXCEPT ![t] = AfterRetryFails]
              /\ s_lock' = LockAfter(t, AfterRetryFails)
              /\ IF AfterRetryFails = "raised"
                 THEN SendRaises(t)
                 ELSE UNCHANGED linkVars
              /\ UNCHANGED rigVars
         ELSE /\ SendReturns(t, r)
              /\ UNCHANGED s_fails
    /\ UNCHANGED <<s_op, s_reconn, s_rfail, mon_errors, mon_loop_reconn>>
    /\ UNCHANGED <<cfgVars, seqVars, ackVars, waitVars, closeVars, laterVars>>

\* _ptt_monitor_loop: the except branch around _send. With the allowance
\* _reconnect_once it calls _reconnect() (which takes self.lock); otherwise,
\* or when that raises, it disables event mode and the thread ends.
MonHandle ==
    /\ s_pc["mon"] = "raised"
    /\ reconnect_once => s_lock = None
    /\ \E ok \in BOOLEAN : PollerError(ok)
    /\ mon_errors' = mon_errors + 1
    /\ mon_loop_reconn' = mon_loop_reconn + (IF reconnect_once THEN 1 ELSE 0)
    /\ s_reconn' = [s_reconn EXCEPT !["mon"] = @ + (IF reconnect_once THEN 1 ELSE 0)]
    /\ s_pc' = [s_pc EXCEPT !["mon"] = IF evt_alive' THEN "idle" ELSE "stopped"]
    /\ UNCHANGED <<s_op, s_lock, s_sends, s_fails, s_rfail>>
    /\ UNCHANGED <<cfgVars, seqVars, linkVars, ackVars, waitVars, closeVars, laterVars>>

InitSend == SendSessionInit

NextSend ==
    \/ OpCall
    \/ MonPoll
    \/ \E t \in Threads : SendTry1(t)
    \/ \E t \in Threads : SendReconnect(t)
    \/ \E t \in Threads : SendTry2(t)
    \/ MonHandle

SpecSend == InitSend /\ [][NextSend]_vars


\* --------------- FlexTransport with time passing and a listener that ends

\* The transport is connected and its listener runs.
CloseSessionInit == AckSessionInit

\* The threads that call send_command in this session.
CloseCallers == {"t1", "t2"}

\* Lines the radio may write in this session: the ACK of any of its
\* commands, an ACK of command 12 and a status line.
ClosePeerLines ==
    {AckLine(n) : n \in 1..MaxCloseCmds} \cup
    {<<"R", "1", "2", "|", "0">>, <<"S", "1", "|", "0">>}

\* send_command up to the wait: ConnectionError when the transport is not
\* connected; else _next_seq, sendall (which may raise), and the deadline.
TSend(c) ==
    /\ caller[c].st # "waiting"
    /\ IF ~t_connected
       THEN /\ caller' = [caller EXCEPT ![c] =
                    [st |-> "refused", seq |-> 0, got |-> <<>>, skipped |-> FALSE]]
            /\ UNCHANGED <<next_seq, c_left>>
       ELSE /\ next_seq <= MaxCloseCmds
            /\ next_seq' = next_seq + 1
            /\ \E sent \in BOOLEAN, timeout \in 0..MaxAckTimeout :
                 /\ caller' = [caller EXCEPT ![c] =
                        [st |-> IF sent THEN "waiting" ELSE "raised",
                         seq |-> next_seq, got |-> <<>>, skipped |-> FALSE]]
                 /\ c_left' = [c_left EXCEPT ![c] = IF sent THEN timeout ELSE 0]
    /\ at_close' = at_close \ {c}
    /\ UNCHANGED <<peer_lines, resp_q, scen, t_connected>>
    /\ UNCHANGED <<cfgVars, seqVars, rigVars, linkVars, waitVars, sendVars, laterVars>>

\* One iteration of the wait loop, entered before the deadline, whose
\* _resp_q.get returned a line.
TTake(c) ==
    /\ caller[c].st = "waiting"
    /\ ~DeadlineReached(c_left[c])
    /\ resp_q # <<>>
    /\ resp_q' = Tail(resp_q)
    /\ LET hit == AckMatches(Head(resp_q), caller[c].seq)
       IN /\ caller' = [caller EXCEPT ![c] =
                    IF hit
                    THEN [@ EXCEPT !.st = "returned", !.got = Head(resp_q)]
                    ELSE [@ EXCEPT !.skipped = TRUE]]
          /\ c_left' = [c_left EXCEPT ![c] = IF hit THEN 0 ELSE @]
    /\ UNCHANGED <<next_seq, peer_lines, scen, t_connected, at_close>>
    /\ UNCHANGED <<cfgVars, seqVars, rigVars, linkVars, waitVars, sendVars, laterVars>>

\* The loop condition fails: TimeoutError.
TTimeout(c) ==
    /\ caller[c].st = "waiting"
    /\ DeadlineReached(c_left[c])
    /\ caller' = [caller EXCEPT ![c].st = "timeout"]
    /\ UNCHANGED <<next_seq, peer_lines, resp_q, scen, closeVars>>
    /\ UNCHANGED <<cfgVars, seqVars, rigVars, linkVars, waitVars, sendVars, laterVars>>

\* Time passes: every running deadline comes one unit closer.
TTick ==
    /\ \E c \in CloseCallers : c_left[c] > 0
    /\ c_left' = [c \in Callers |-> IF c_left[c] > 0 THEN c_left[c] - 1 ELSE 0]
    /\ UNCHANGED <<t_connected, at_close>>
    /\ UNCHANGED <<cfgVars, seqVars, rigVars, linkVars, ackVars, waitVars, sendVars, laterVars>>

\* _listener_loop, one line the radio wrote, while the listener runs.
TListenerLine ==
    /\ t_connected
    /\ peer_lines < MaxCloseLines
    /\ peer_lines' = peer_lines + 1
    /\ \E line \in ClosePeerLines :
         IF IsAck(line) /\ Len(resp_q) < resp_q_maxsize
         THEN resp_q' = Append(resp_q, line)
         ELSE UNCHANGED resp_q
    /\ UNCHANGED <<next_seq, caller, scen, closeVars>>
    /\ UNCHANGED <<cfgVars, seqVars, rigVars, linkVars, waitVars, sendVars, laterVars>>

\* _listener_loop: _recv_line raised (peer closed, reset, socket error); the
\* loop breaks and the finally block closes the socket and clears
\* _connected. Nothing is put into _resp_q and no caller is signalled.
TListenerClose ==
    /\ t_connected
    /\ t_connected' = FALSE
    /\ at_close' = {c \in CloseCallers : caller[c].st = "waiting"}
    /\ UNCHANGED c_left
    /\ UNCHANGED <<cfgVars, seqVars, rigVars, linkVars, ackVars, waitVars, sendVars, laterVars>>

InitClose == CloseSessionInit

NextClose ==
    \/ \E c \in CloseCallers : TSend(c)
    \/ \E c \in CloseCallers : TTake(c)
    \/ \E c \in CloseCallers : TTimeout(c)
    \/ TTick
    \/ TListenerLine
    \/ TListenerClose

SpecClose == InitClose /\ [][NextClose]_vars

\* The clock advances and a thread whose deadline has passed gets to run.
SpecCloseFair ==
    /\ SpecClose
    /\ WF_vars(TTick)
    /\ \A c \in CloseCallers : WF_vars(TTimeout(c))


\* ------------------------------- one call of calculate_tuning_frequencies

\* Nothing else runs; the inputs are any integers within the bounds.
BandSessionInit ==
    /\ variant = "tuning_loop"
    /\ radio_type = "rigctl"
    /\ dummy = FALSE
    /\ amp_enabled = FALSE
    /\ is_cat = FALSE
    /\ force_manual = FALSE
    /\ SeqInit
    /\ RigInit
    /\ LinkInit
    /\ AckInit
    /\ WaitInit
    /\ SendInit
    /\ CloseInit
    /\ SnapInit
    /\ TailInit
    /\ b_pc = "in"
    /\ b_bs \in 0..MaxHz
    /\ b_be \in 0..MaxHz
    /\ b_step \in 0..MaxStep
    /\ b_c0 \in 0..MaxHz
    /\ b_out = [raised |-> FALSE, pts |-> <<>>]

CalcPoints ==
    /\ b_pc = "in"
    /\ b_pc' = "out"
    /\ b_out' = calculate_tuning_frequencies(b_bs, b_be, b_step, b_c0)
    /\ UNCHANGED <<b_bs, b_be, b_step, b_c0>>
    /\ UNCHANGED <<cfgVars, seqVars, rigVars, linkVars, ackVars, waitVars,
                   sendVars, closeVars, snapVars, tailVars>>

InitBand == BandSessionInit

NextBand == CalcPoints

SpecBand == InitBand /\ [][NextBand]_vars


\* ------------------- FlexRadioClient: connect() with the listener running

\* The transport is connected, the listener runs, no slice line has come.
SnapSessionInit ==
    /\ variant = "tuning_loop"
    /\ radio_type = "flex"
    /\ dummy = FALSE
    /\ amp_enabled = FALSE
    /\ is_cat = FALSE
    /\ force_manual = FALSE
    /\ SeqInit
    /\ RigInit
    /\ LinkInit
    /\ AckInit
    /\ WaitInit
    /\ SendInit
    /\ CloseInit
    /\ BandInit
    /\ SnapInit
    /\ TailInit

\* The first capture is remembered when taken turns true.
FirstCapture(new) == IF ~orig.taken /\ new.taken THEN new ELSE first_cap

\* _on_slice on the listener thread, for one slice status line.
OnSlice ==
    /\ slice_updates < MaxSliceUpdates
    /\ slice_updates' = slice_updates + 1
    /\ \E sid \in SliceIds,
          line_mode \in SliceModes \cup {NoMode},
          line_freq \in SliceFreqs \cup {NoFreq},
          tx \in BOOLEAN :
         LET sl == MergeSlice(slices[sid], [mode |-> line_mode, freq |-> line_freq])
             new == OnSliceOrig(orig, sid, sl)
         IN /\ slices' = [slices EXCEPT ![sid] = sl]
            /\ tx_slice_id' = IF tx THEN sid ELSE tx_slice_id
            /\ orig' = new
            /\ first_cap' = FirstCapture(new)
    /\ UNCHANGED <<snap_pc, snap_sid, snap_mode, snap_freq>>
    /\ UNCHANGED <<cfgVars, seqVars, rigVars, linkVars, ackVars, waitVars,
                   sendVars, closeVars, bandVars, tailVars>>

\* snapshot_state is called (connect() does, and later callers may): a
\* no-op when taken is set, else sid is chosen and the polling starts.
SnapshotCall ==
    /\ snap_pc \in {"idle", "done"}
    /\ IF orig.taken
       THEN /\ snap_pc' = "done"
            /\ UNCHANGED <<snap_sid, snap_mode, snap_freq>>
       ELSE /\ snap_pc' = "poll"
            /\ snap_sid' = ChooseSliceId
            /\ snap_mode' = NoMode
            /\ snap_freq' = NoFreq
    /\ UNCHANGED <<slices, tx_slice_id, orig, slice_updates, first_cap>>
    /\ UNCHANGED <<cfgVars, seqVars, rigVars, linkVars, ackVars, waitVars,
                   sendVars, closeVars, bandVars, tailVars>>

\* snapshot_state: one pass of the polling loop; it ends the loop when both
\* fields are known.
SnapshotPoll ==
    /\ snap_pc = "poll"
    /\ LET sl == slices[snap_sid]
           m == IF sl.seen /\ sl.mode # NoMode THEN sl.mode ELSE snap_mode
           f == IF sl.seen /\ sl.freq # NoFreq THEN sl.freq ELSE snap_freq
       IN /\ snap_mode' = m
          /\ snap_freq' = f
          /\ snap_pc' = IF m # NoMode /\ f # NoFreq THEN "persist" ELSE "poll"
    /\ UNCHANGED <<slices, tx_slice_id, orig, snap_sid, slice_updates, first_cap>>
    /\ UNCHANGED <<cfgVars, seqVars, rigVars, linkVars, ackVars, waitVars,
                   sendVars, closeVars, bandVars, tailVars>>

\* snapshot_state: the deadline passed, the loop ends with what it has.
SnapshotDeadline ==
    /\ snap_pc = "poll"
    /\ snap_pc' = "persist"
    /\ UNCHANGED <<slices, tx_slice_id, orig, snap_sid, snap_mode, snap_freq,
                   slice_updates, first_cap>>
    /\ UNCHANGED <<cfgVars, seqVars, rigVars, linkVars, ackVars, waitVars,
                   sendVars, closeVars, bandVars, tailVars>>

\* snapshot_state: self._orig.update(...) with what the loop found.
SnapshotPersist ==
    /\ snap_pc = "persist"
    /\ snap_pc' = "done"
    /\ LET new == [taken |-> TRUE, slice_id |-> snap_sid,
                   mode |-> snap_mode, freq |-> snap_freq]
       IN /\ orig' = new
          /\ first_cap' = FirstCapture(new)
    /\ UNCHANGED <<slices, tx_slice_id, snap_sid, snap_mode, snap_freq, slice_updates>>
    /\ UNCHANGED <<cfgVars, seqVars, rigVars, linkVars, ackVars, waitVars,
                   sendVars, closeVars, bandVars, tailVars>>

InitSnap == SnapSessionInit

NextSnap ==
    \/ OnSlice
    \/ SnapshotCall
    \/ SnapshotPoll
    \/ SnapshotDeadline
    \/ SnapshotPersist

SpecSnap == InitSnap /\ [][NextSnap]_vars


\* ----------------------------------- FlexRadioClient.shutdown(restore)

\* A session at its end: any snapshot the session may have left (none, a
\* partial or a complete one), the transport connected or already torn down.
ShutSessionInit ==
    /\ variant = "tuning_loop"
    /\ radio_type = "flex"
    /\ dummy = FALSE
    /\ amp_enabled = FALSE
    /\ is_cat = FALSE
    /\ force_manual = FALSE
    /\ SeqInit
    /\ RigInit
    /\ LinkInit
    /\ AckInit
    /\ WaitInit
    /\ SendInit
    /\ c_left = [c \in Callers |-> 0]
    /\ at_close = {}
    /\ t_connected \in BOOLEAN
    /\ BandInit
    /\ slices = [i \in SliceIds |-> NoSliceData]
    /\ tx_slice_id = NoSlice
    /\ \/ orig = NoSnapshot
       \/ \E sid \in SliceIds, m \in SliceModes \cup {NoMode},
             f \in SliceFreqs \cup {NoFreq} :
            orig = [taken |-> TRUE, slice_id |-> sid, mode |-> m, freq |-> f]
    /\ snap_pc = "done"
    /\ snap_sid = 0
    /\ snap_mode = NoMode
    /\ snap_freq = NoFreq
    /\ slice_updates = 0
    /\ first_cap = orig
    /\ sh_pc = "idle"
    /\ sh_restore \in BOOLEAN
    /\ sh_cmds = <<>>
    /\ sh_raised = FALSE
    /\ PostInit

\* Where shutdown goes after a restore command met outcome: on, or to the
\* except branch and from there to disconnect(), or out with the exception.
AfterRestoreCommand(outcome, next) ==
    IF outcome = "ok" THEN next
    ELSE IF RestoreCaught(outcome) THEN "disconnect" ELSE "raised"

\* shutdown is called: with restore and a snapshot it enters restore_state.
ShutdownCall ==
    /\ sh_pc = "idle"
    /\ sh_pc' = IF sh_restore /\ orig.taken THEN "mode" ELSE "disconnect"
    /\ UNCHANGED <<sh_restore, sh_cmds, sh_raised>>
    /\ UNCHANGED <<cfgVars, seqVars, rigVars, linkVars, ackVars, waitVars,
                   sendVars, closeVars, bandVars, snapVars, postVars>>

\* restore_state: "slice set <sid> mode=<mode>" when the snapshot has a mode.
RestoreMode ==
    /\ sh_pc = "mode"
    /\ IF orig.mode = NoMode
       THEN /\ sh_pc' = "freq"
            /\ UNCHANGED <<sh_cmds, sh_raised>>
       ELSE \E outcome \in RestoreOutcomes :
            /\ (outcome \in {"ok", "rc", "timeout"} => t_connected)
            /\ sh_cmds' = Append(sh_cmds, "mode")
            /\ sh_pc' = AfterRestoreCommand(outcome, "freq")
            /\ sh_raised' = (sh_pc' = "raised")
    /\ UNCHANGED sh_restore
    /\ UNCHANGED <<cfgVars, seqVars, rigVars, linkVars, ackVars, waitVars,
                   sendVars, closeVars, bandVars, snapVars, postVars>>

\* restore_state: "slice tune <sid> <freq>" when the snapshot has a frequency.
RestoreFreq ==
    /\ sh_pc = "freq"
    /\ IF orig.freq = NoFreq
       THEN /\ sh_pc' = "disconnect"
            /\ UNCHANGED <<sh_cmds, sh_raised>>
       ELSE \E outcome \in RestoreOutcomes :
            /\ (outcome \in {"ok", "rc", "timeout"} => t_connected)
            /\ sh_cmds' = Append(sh_cmds, "freq")
            /\ sh_pc' = AfterRestoreCommand(outcome, "disconnect")
            /\ sh_raised' = (sh_pc' = "raised")
    /\ UNCHANGED sh_restore
    /\ UNCHANGED <<cfgVars, seqVars, rigVars, linkVars, ackVars, waitVars,
                   sendVars, closeVars, bandVars, snapVars, postVars>>

\* shutdown: self.disconnect(), which stops the listener and closes the socket.
ShutdownDisconnect ==
    /\ sh_pc = "disconnect"
    /\ sh_pc' = "done"
    /\ t_connected' = FALSE
    /\ UNCHANGED <<c_left, at_close>>
    /\ UNCHANGED <<sh_restore, sh_cmds, sh_raised>>
    /\ UNCHANGED <<cfgVars, seqVars, rigVars, linkVars, ackVars, waitVars,
                   sendVars, bandVars, snapVars, postVars>>

InitShut == ShutSessionInit

NextShut ==
    \/ ShutdownCall
    \/ RestoreMode
    \/ RestoreFreq
    \/ ShutdownDisconnect

SpecShut == InitShut /\ [][NextShut]_vars


\* ------------------------------------------------------------- the process
\* main() from the radio setup on, its finally block, graceful_exit and the
\* handlers under __main__.

\* What can end the try block of main() before run_tuning_loop returns.
TryExceptions == {"Exception", "BaseRadioError", "ConfigurationError",
                  "RF2KSClientError", "FatalFrequencyMismatch"}

\* The exceptions run_tuning_loop lets out.
LoopExceptions == {"FatalFrequencyMismatch", "Exception"}

\* The handlers under __main__ catch Exception and its subclasses; the
\* SystemExit of a sys.exit passes them.
HandlersCatch(exc) == exc \in TryExceptions

ProcSessionInit ==
    /\ variant = "main"
    /\ radio_type \in {"rigctl", "flex"}
    /\ dummy = FALSE
    /\ amp_enabled \in BOOLEAN
    /\ is_cat = FALSE
    /\ force_manual = FALSE
    /\ SeqInit
    /\ RigInit
    /\ LinkInit
    /\ AckInit
    /\ WaitInit
    /\ SendInit
    /\ CloseInit
    /\ BandInit
    /\ SnapInit
    /\ ShutInit
    /\ ExtInit
    /\ PrepInit
    /\ CycleInit
    /\ FlexSetInit
    /\ VerifyInit
    /\ m_pc = "setup"
    /\ m_restore \in BOOLEAN
    /\ m_rigctld = FALSE
    /\ m_client = FALSE
    /\ m_exc = None
    /\ m_cause = <<>>
    /\ m_shutdown = <<>>
    /\ m_exit_arg = <<>>
    /\ m_status = <<>>

\* The try block is left with exc in flight: on to the finally block.
TryRaises(exc) ==
    /\ m_exc' = exc
    /\ m_cause' = <<exc, m_pc>>
    /\ m_pc' = "finally"

\* main() before its try block: radio_setup, which starts a rigctld of its
\* own for the polling link when so configured, or raises ConfigurationError.
ProcSetup ==
    /\ m_pc = "setup"
    /\ \/ /\ m_pc' = "construct"
          /\ m_rigctld' \in (IF radio_type = "rigctl" THEN BOOLEAN ELSE {FALSE})
          /\ UNCHANGED m_exc
       \/ /\ m_pc' = "handlers"
          /\ m_exc' = "ConfigurationError"
          /\ UNCHANGED m_rigctld
    /\ UNCHANGED <<m_restore, m_client, m_cause, m_shutdown, m_exit_arg, m_status>>
    /\ UNCHANGED procOther

\* radio_client = radio_class(host, port)
ProcConstruct ==
    /\ m_pc = "construct"
    /\ \/ /\ m_client' = TRUE
          /\ m_pc' = "connect"
          /\ UNCHANGED <<m_exc, m_cause>>
       \/ /\ TryRaises("Exception")
          /\ UNCHANGED m_client
    /\ UNCHANGED <<m_restore, m_rigctld, m_shutdown, m_exit_arg, m_status>>
    /\ UNCHANGED procOther

\* validate_rigctl_settings; radio_client.connect(); the PTT probe, whose
\* BaseRadioError is ignored.
ProcConnect ==
    /\ m_pc = "connect"
    /\ \/ /\ m_pc' = "amp"
          /\ UNCHANGED <<m_exc, m_cause>>
       \/ \E exc \in {"ConfigurationError", "BaseRadioError"} : TryRaises(exc)
    /\ UNCHANGED <<m_restore, m_rigctld, m_client, m_shutdown, m_exit_arg, m_status>>
    /\ UNCHANGED procOther

\* Amplifier setup: fetch_info and set_operate_mode("STANDBY") when enabled.
ProcAmpSetup ==
    /\ m_pc = "amp"
    /\ \/ /\ m_pc' = "loop"
          /\ UNCHANGED <<m_exc, m_cause>>
       \/ /\ amp_enabled
          /\ TryRaises("RF2KSClientError")
    /\ UNCHANGED <<m_restore, m_rigctld, m_client, m_shutdown, m_exit_arg, m_status>>
    /\ UNCHANGED procOther

\* run_tuning_loop(radio_client, rf2ks, ctx): it returns, or the frequency
\* verification of an entry fails (FatalFrequencyMismatch), or another
\* exception leaves it.
ProcRunTuningLoop ==
    /\ m_pc = "loop"
    /\ \/ /\ m_pc' = "finally"
          /\ UNCHANGED <<m_exc, m_cause>>
       \/ \E exc \in LoopExceptions :
            /\ (exc = "FatalFrequencyMismatch" => amp_enabled)
            /\ TryRaises(exc)
    /\ UNCHANGED <<m_restore, m_rigctld, m_client, m_shutdown, m_exit_arg, m_status>>
    /\ UNCHANGED procOther

\* finally: graceful_exit(radio_client=radio_client, restore=restore,
\* rigctld=rigctld). It stops the rigctld it started, calls
\* radio_client.shutdown(restore=restore) when there is a client (what that
\* raises is logged), and ends with sys.exit(exit_code): the SystemExit
\* replaces the exception in flight.
ProcGracefulExit ==
    /\ m_pc = "finally"
    /\ m_rigctld' = FALSE
    /\ m_shutdown' = IF m_client THEN Append(m_shutdown, m_restore) ELSE m_shutdown
    /\ m_exc' = "SystemExit"
    /\ m_exit_arg' = <<exit_code>>
    /\ m_pc' = "handlers"
    /\ UNCHANGED <<m_restore, m_client, m_cause, m_status>>
    /\ UNCHANGED procOther

\* The handlers under __main__: an exception they catch is logged and the
\* process ends with sys.exit(1); a SystemExit ends it with its argument.
ProcHandlers ==
    /\ m_pc = "handlers"
    /\ m_status' = IF HandlersCatch(m_exc) THEN <<FatalExitCode>>
                   ELSE IF m_exc = "SystemExit" THEN m_exit_arg
                   ELSE <<0>>
    /\ m_pc' = "exited"
    /\ UNCHANGED <<m_restore, m_rigctld, m_client, m_exc, m_cause, m_shutdown, m_exit_arg>>
    /\ UNCHANGED procOther

InitProc == ProcSessionInit

NextProc ==
    \/ ProcSetup
    \/ ProcConstruct
    \/ ProcConnect
    \/ ProcAmpSetup
    \/ ProcRunTuningLoop
    \/ ProcGracefulExit
    \/ ProcHandlers

SpecProc == InitProc /\ [][NextProc]_vars


\* ------------------------------------------- band preparation and tuning
\* run_tuning_loop's calls of set_mode, set_drive_power and set_frequency,
\* with the exception each link lets out of them.

PrepSessionInit ==
    /\ variant = "tuning_loop"
    /\ radio_type \in {"rigctl", "flex"}
    /\ dummy = FALSE
    /\ amp_enabled = FALSE
    /\ is_cat = FALSE
    /\ force_manual = FALSE
    /\ SeqInit
    /\ RigInit
    /\ LinkInit
    /\ AckInit
    /\ WaitInit
    /\ SendInit
    /\ CloseInit
    /\ BandInit
    /\ SnapInit
    /\ ShutInit
    /\ ExtInit
    /\ ProcInit
    /\ CycleInit
    /\ FlexSetInit
    /\ VerifyInit
    /\ p_pc = "loop"
    /\ p_seg = 1
    /\ p_last_band = 0
    /\ p_auto_cw \in BOOLEAN
    /\ p_prep_failed = {}
    /\ p_freq_failed = {}
    /\ p_attempted = {}
    /\ p_exc = None

\* continue: on to the next plan entry.
PrepContinue ==
    /\ p_seg' = p_seg + 1
    /\ p_pc' = "loop"

\* exc leaves run_tuning_loop.
PrepEscapes(exc) ==
    /\ p_exc' = exc
    /\ p_pc' = "escaped"
    /\ UNCHANGED p_seg

\* for band_label, freq_mhz in plan: the head of an iteration. On a new band
\* it goes to the band preparation, else to set_frequency.
PrepLoop ==
    /\ p_pc = "loop"
    /\ p_seg <= PlanLen
    /\ p_pc' = IF PlanBand(p_seg) # p_last_band
               THEN (IF p_auto_cw THEN "set_mode" ELSE "set_drive_power")
               ELSE "set_freq"
    /\ UNCHANGED <<p_seg, p_last_band, p_auto_cw, p_prep_failed, p_freq_failed,
                   p_attempted, p_exc>>
    /\ UNCHANGED prepOther

\* Faulty variant of LastBandAfterPrepFailure: last_band is left as it was.
LastBandUnchangedByFailure(band, last) == last

\* except BaseRadioError: ... last_band = band_label; continue
LastBandAfterPrepFailure(band, last) == band

\* One call of the band preparation meeting outcome: a caught exception is
\* logged, last_band is set and the entry is left; another one leaves the loop.
PrepCall(outcome, next) ==
    LET exc == RaisedBy(radio_type, outcome) IN
    IF exc = None
    THEN /\ p_pc' = next
         /\ p_last_band' = IF next = "set_freq" THEN PlanBand(p_seg) ELSE p_last_band
         /\ UNCHANGED <<p_seg, p_prep_failed, p_exc>>
    ELSE IF SequencerCatches(exc)
    THEN /\ p_prep_failed' = p_prep_failed \cup {p_seg}
         /\ p_last_band' = LastBandAfterPrepFailure(PlanBand(p_seg), p_last_band)
         /\ PrepContinue
         /\ UNCHANGED p_exc
    ELSE /\ PrepEscapes(exc)
         /\ UNCHANGED <<p_last_band, p_prep_failed>>

\* radio_client.set_mode("CW", 400)
PrepSetMode ==
    /\ p_pc = "set_mode"
    /\ \E outcome \in CommandOutcomes(radio_type) : PrepCall(outcome, "set_drive_power")
    /\ UNCHANGED <<p_auto_cw, p_freq_failed, p_attempted>>
    /\ UNCHANGED prepOther

\* radio_client.set_drive_power(current_drive_w)
PrepSetDrivePower ==
    /\ p_pc = "set_drive_power"
    /\ \E outcome \in DrivePowerOutcomes(radio_type) : PrepCall(outcome, "set_freq")
    /\ UNCHANGED <<p_auto_cw, p_freq_failed, p_attempted>>
    /\ UNCHANGED prepOther

\* radio_client.set_frequency(freq_mhz)
PrepSetFrequency ==
    /\ p_pc = "set_freq"
    /\ p_attempted' = p_attempted \cup {p_seg}
    /\ \E outcome \in CommandOutcomes(radio_type) :
         LET exc == RaisedBy(radio_type, outcome) IN
         IF exc = None
         THEN /\ p_pc' = "tune"
              /\ UNCHANGED <<p_seg, p_freq_failed, p_exc>>
         ELSE IF SequencerCatches(exc)
         THEN /\ p_freq_failed' = p_freq_failed \cup {p_seg}
              /\ PrepContinue
              /\ UNCHANGED p_exc
         ELSE /\ PrepEscapes(exc)
              /\ UNCHANGED p_freq_failed
    /\ UNCHANGED <<p_last_band, p_auto_cw, p_prep_failed>>
    /\ UNCHANGED prepOther

\* The rest of the iteration: verification, guidance, the PTT cycle and the
\* telemetry; it ends the entry.
PrepTune ==
    /\ p_pc = "tune"
    /\ PrepContinue
    /\ UNCHANGED <<p_last_band, p_auto_cw, p_prep_failed, p_freq_failed, p_attempted, p_exc>>
    /\ UNCHANGED prepOther

\* The plan is exhausted: the summary.
PrepSummary ==
    /\ p_pc = "loop"
    /\ p_seg > PlanLen
    /\ p_pc' = "done"
    /\ UNCHANGED <<p_seg, p_last_band, p_auto_cw, p_prep_failed, p_freq_failed,
                   p_attempted, p_exc>>
    /\ UNCHANGED prepOther

InitPrep == PrepSessionInit

NextPrep ==
    \/ PrepLoop
    \/ PrepSetMode
    \/ PrepSetDrivePower
    \/ PrepSetFrequency
    \/ PrepTune
    \/ PrepSummary

SpecPrep == InitPrep /\ [][NextPrep]_vars


\* ------------------------------------------------------------ the PTT cycle
\* run_tuning_loop from "Decide PTT path" to log_tuner_data, one call of the
\* link or of input() per step.

\* Faulty variant of ForwardedFlag: telemetry is told every cycle was sensed.
ForwardedFlagAlways(used) == TRUE

\* The value log_tuner_data receives.
ForwardedFlag(used) == used

\* Faulty variant of CyclePath: the manual branch falls into the polling loop.
CyclePathManualPolls(m) ==
    CASE m = "EventDriven" -> "wait_tx"
      [] OTHER -> "poll_tx"

\* Where the if / elif / else of "Decide PTT path" goes for the path m.
CyclePath(m) ==
    CASE m = "EventDriven" -> "wait_tx"
      [] m = "Manual" -> "manual_key"
      [] OTHER -> "poll_tx"

\* log_tuner_data: the /power reads made (read_power_post_unkey, once) for
\* the flag it received.
PowerReads(flag) == IF flag THEN 1 ELSE 0

CycleSessionInit ==
    /\ variant \in {"tuning_loop", "main"}
    /\ radio_type \in {"rigctl", "flex"}
    /\ dummy = FALSE
    /\ amp_enabled \in BOOLEAN
    /\ is_cat = FALSE
    /\ force_manual = FALSE
    /\ SeqInit
    /\ RigInit
    /\ LinkInit
    /\ AckInit
    /\ WaitInit
    /\ SendInit
    /\ CloseInit
    /\ BandInit
    /\ SnapInit
    /\ ShutInit
    /\ ExtInit
    /\ ProcInit
    /\ PrepInit
    /\ FlexSetInit
    /\ VerifyInit
    /\ y_pc = "decide"
    /\ y_supported \in BOOLEAN
    /\ y_event \in (IF radio_type = "flex" THEN {FALSE} ELSE BOOLEAN)
    /\ y_ptt = FALSE
    /\ y_mode = None
    /\ y_left = 0
    /\ y_calls = {}
    /\ y_acks = 0
    /\ y_used = FALSE
    /\ y_sensed = FALSE
    /\ y_forwarded = <<>>
    /\ y_power_reads = 0
    /\ y_cycles = 0

\* The cycle is over: on to the next entry, or the plan is exhausted.
CycleEnds ==
    /\ y_cycles' = y_cycles + 1
    /\ y_pc' = IF y_cycles + 1 < MaxCycles THEN "decide" ELSE "done"

\* "Decide PTT path": used_auto_ptt = False, then the if / elif / else.
CycleDecide ==
    /\ y_pc = "decide"
    /\ y_mode' = SelectMode(variant, y_supported, y_supported, y_event)
    /\ y_pc' = CyclePath(y_mode')
    /\ y_left' = MaxWaitSlices
    /\ y_used' = FALSE
    /\ y_sensed' = FALSE
    /\ y_calls' = {}
    /\ y_acks' = 0
    /\ y_forwarded' = <<>>
    /\ y_power_reads' = 0
    /\ UNCHANGED <<y_supported, y_event, y_ptt, y_cycles>>
    /\ UNCHANGED cycleOther

\* EVENT-DRIVEN: one wait_for_tx(timeout=slice) before the deadline, or the
\* deadline: "Skipping segment" and continue.
CycleWaitTx ==
    /\ y_pc = "wait_tx"
    /\ IF y_left = 0
       THEN /\ CycleEnds
            /\ UNCHANGED <<y_calls, y_left>>
       ELSE /\ y_calls' = y_calls \cup {"wait_for_tx"}
            /\ IF y_ptt
               THEN y_pc' = "wait_unkey" /\ y_left' = MaxWaitSlices
               ELSE y_pc' = "wait_tx" /\ y_left' = y_left - 1
            /\ UNCHANGED y_cycles
    /\ UNCHANGED <<y_supported, y_event, y_ptt, y_mode, y_acks, y_used, y_sensed,
                   y_forwarded, y_power_reads>>
    /\ UNCHANGED cycleOther

\* EVENT-DRIVEN: one wait_for_unkey(timeout=slice) before the deadline, or
\* the deadline: "Continuing" with used_auto_ptt False.
CycleWaitUnkey ==
    /\ y_pc = "wait_unkey"
    /\ IF y_left = 0
       THEN /\ y_pc' = "log"
            /\ UNCHANGED <<y_calls, y_left, y_used, y_sensed>>
       ELSE /\ y_calls' = y_calls \cup {"wait_for_unkey"}
            /\ IF ~y_ptt
               THEN /\ y_used' = TRUE
                    /\ y_sensed' = TRUE
                    /\ y_pc' = "log"
                    /\ UNCHANGED y_left
               ELSE /\ y_left' = y_left - 1
                    /\ UNCHANGED <<y_pc, y_used, y_sensed>>
    /\ UNCHANGED <<y_supported, y_event, y_ptt, y_mode, y_acks, y_forwarded,
                   y_power_reads, y_cycles>>
    /\ UNCHANGED cycleOther

\* MANUAL: input("Press ENTER to confirm you are about to key...")
CycleManualKey ==
    /\ y_pc = "manual_key"
    /\ y_acks' = y_acks + 1
    /\ y_pc' = "manual_unkey"
    /\ UNCHANGED <<y_supported, y_event, y_ptt, y_mode, y_left, y_calls, y_used,
                   y_sensed, y_forwarded, y_power_reads, y_cycles>>
    /\ UNCHANGED cycleOther

\* MANUAL: input("Press ENTER AFTER you have UNKEYED ...")
CycleManualUnkey ==
    /\ y_pc = "manual_unkey"
    /\ y_acks' = y_acks + 1
    /\ y_pc' = "log"
    /\ UNCHANGED <<y_supported, y_event, y_ptt, y_mode, y_left, y_calls, y_used,
                   y_sensed, y_forwarded, y_power_reads, y_cycles>>
    /\ UNCHANGED cycleOther

\* What one get_ptt() of the POLLING loops can give: the reported level, on
\* the polling link also BaseRadioError ("raised", logged and retried) and
\* RPRT -11 ("rprt11": False, and ptt_supported is cleared).
GetPttResults == IF radio_type = "rigctl" THEN {"level", "raised", "rprt11"} ELSE {"level"}

\* POLLING: while True: if get_ptt(): break
CyclePollTx ==
    /\ y_pc = "poll_tx"
    /\ y_calls' = y_calls \cup {"get_ptt"}
    /\ \E r \in GetPttResults :
         /\ y_supported' = IF r = "rprt11" THEN FALSE ELSE y_supported
         /\ y_pc' = IF r = "level" /\ y_ptt THEN "poll_unkey" ELSE "poll_tx"
    /\ UNCHANGED <<y_event, y_ptt, y_mode, y_left, y_acks, y_used, y_sensed,
                   y_forwarded, y_power_reads, y_cycles>>
    /\ UNCHANGED cycleOther

\* POLLING: while True: if not get_ptt(): break; then used_auto_ptt = True
CyclePollUnkey ==
    /\ y_pc = "poll_unkey"
    /\ y_calls' = y_calls \cup {"get_ptt"}
    /\ \E r \in GetPttResults :
         /\ y_supported' = IF r = "rprt11" THEN FALSE ELSE y_supported
         /\ IF r = "rprt11" \/ (r = "level" /\ ~y_ptt)
            THEN /\ y_pc' = "log"
                 /\ y_used' = TRUE
                 /\ y_sensed' = TRUE
            ELSE UNCHANGED <<y_pc, y_used, y_sensed>>
    /\ UNCHANGED <<y_event, y_ptt, y_mode, y_left, y_acks, y_forwarded,
                   y_power_reads, y_cycles>>
    /\ UNCHANGED cycleOther

\* if amp_enabled: rf2ks.log_tuner_data(used_auto_ptt); total_segments += 1
CycleLog ==
    /\ y_pc = "log"
    /\ IF amp_enabled
       THEN /\ y_forwarded' = <<ForwardedFlag(y_used)>>
            /\ y_power_reads' = PowerReads(ForwardedFlag(y_used))
       ELSE UNCHANGED <<y_forwarded, y_power_reads>>
    /\ CycleEnds
    /\ UNCHANGED <<y_supported, y_event, y_ptt, y_mode, y_left, y_calls, y_acks,
                   y_used, y_sensed>>
    /\ UNCHANGED cycleOther

\* The operator keys or unkeys the transmitter.
CycleOperator ==
    /\ y_pc \notin {"decide", "done"}
    /\ y_ptt' = ~y_ptt
    /\ UNCHANGED <<y_pc, y_supported, y_event, y_mode, y_left, y_calls, y_acks,
                   y_used, y_sensed, y_forwarded, y_power_reads, y_cycles>>
    /\ UNCHANGED cycleOther

InitCycle == CycleSessionInit

NextCycle ==
    \/ CycleDecide
    \/ CycleWaitTx
    \/ CycleWaitUnkey
    \/ CycleManualKey
    \/ CycleManualUnkey
    \/ CyclePollTx
    \/ CyclePollUnkey
    \/ CycleLog
    \/ CycleOperator

SpecCycle == InitCycle /\ [][NextCycle]_vars

\* The foreground thread keeps running: each step of the automatic paths and
\* the telemetry step is taken when it stays possible. Nothing is assumed
\* of the operator.
SpecCycleFair ==
    /\ SpecCycle
    /\ WF_vars(CycleDecide)
    /\ WF_vars(CycleWaitTx)
    /\ WF_vars(CycleWaitUnkey)
    /\ WF_vars(CyclePollTx)
    /\ WF_vars(CyclePollUnkey)
    /\ WF_vars(CycleLog)


\* ------------------------------------- the set_* calls of FlexRadioClient
\* set_mode, set_frequency and set_drive_power against the mirrored state.

\* The mode texts a slice status line can have left in the mirror, and the
\* mode arguments of set_mode.
MirrorModes == {"cw", "USB"}
ModeArgs == {"CW", "usb"}

\* str.upper() on the mode texts of the model.
Upper(m) ==
    CASE m = "cw" -> "CW"
      [] m = "usb" -> "USB"
      [] OTHER -> m

\* The mirrored frequencies (Hz) and the targets of set_frequency.
MirrorHz == {14100000, 14100009, 14100010}
TargetHz == {14100000, 14100100}

\* The mirrored power values and the targets of set_drive_power (W).
PowerValues == {10, 13}

\* Faulty variant of ChooseSliceIdIn: without a TX slice, always slice 0.
ChooseSliceIdInDefault(tx, sl) == IF tx # NoSlice THEN tx ELSE 0

\* _choose_slice_id_for_commands on the mirror sl with TX slice tx.
ChooseSliceIdIn(tx, sl) ==
    IF tx # NoSlice THEN tx
    ELSE IF \E i \in SliceIds : sl[i].seen
         THEN CHOOSE i \in SliceIds :
                sl[i].seen /\ \A j \in SliceIds : sl[j].seen => i <= j
         ELSE 0

Diff(a, b) == IF a >= b THEN a - b ELSE b - a

\* Faulty variant of FlexModeSkips: the texts are compared as they are.
FlexModeSkipsExact(current, target) ==
    current # NoMode /\ current = target

\* set_mode: current and current.upper() == mode.upper()
FlexModeSkips(current, target) ==
    current # NoMode /\ Upper(current) = Upper(target)

\* set_frequency: current is not None and abs(current - freq_mhz) < 0.00001.
\* The operands are floats in MHz: at a distance of exactly 10 Hz the
\* rounding of the subtraction decides, which tie stands for.
FlexFreqSkips(current, target, tie) ==
    /\ current # NoFreq
    /\ \/ Diff(current, target) < 10
       \/ Diff(current, target) = 10 /\ tie

\* set_drive_power: rfpower_value == target and tunepower_value == target
FlexPowerSkips(rf, tune, target) == rf = target /\ tune = target

\* What a set_* call that hands cmd to _send_rc_checked leaves in x_last on
\* outcome: send_command is called once; the bytes leave unless the
\* transport is not connected or sendall fails; the call returns after the
\* ACK with rc 0 and raises otherwise.
FlexSendRecord(call, cmd, outcome) ==
    [op |-> call.op, target |-> call.target, sid |-> call.sid, cur |-> call.cur,
     tie |-> call.tie,
     handed |-> <<cmd>>,
     written |-> (outcome \notin {"not_connected", "send_failed"}),
     acked |-> (outcome \in {"ok", "rc"}),
     raised |-> RaisedBy("flex", outcome)]

\* What a set_* call that skips leaves in x_last.
FlexSkipRecord(call) ==
    [op |-> call.op, target |-> call.target, sid |-> call.sid, cur |-> call.cur,
     tie |-> call.tie,
     handed |-> <<>>, written |-> FALSE, acked |-> FALSE, raised |-> None]

FlexSetSessionInit ==
    /\ variant = "tuning_loop"
    /\ radio_type = "flex"
    /\ dummy = FALSE
    /\ amp_enabled = FALSE
    /\ is_cat = FALSE
    /\ force_manual = FALSE
    /\ SeqInit
    /\ RigInit
    /\ LinkInit
    /\ AckInit
    /\ WaitInit
    /\ SendInit
    /\ CloseInit
    /\ BandInit
    /\ SnapInit
    /\ ShutInit
    /\ ExtInit
    /\ ProcInit
    /\ PrepInit
    /\ CycleInit
    /\ VerifyInit
    /\ x_pc = "idle"
    /\ \E s0 \in {NoSliceData}
               \cup {[seen |-> TRUE, mode |-> m, freq |-> f] :
                        m \in MirrorModes \cup {NoMode}, f \in MirrorHz \cup {NoFreq}},
          s1 \in {NoSliceData, [seen |-> TRUE, mode |-> "CW", freq |-> 14100100]} :
         x_slices = [i \in SliceIds |-> IF i = 0 THEN s0 ELSE s1]
    /\ x_tx \in SliceIds \cup {NoSlice}
    /\ x_rfpower \in PowerValues \cup {NoPower}
    /\ x_tunepower \in PowerValues \cup {NoPower}
    /\ x_last = NoCall

\* set_mode(mode, width)
FlexSetMode ==
    /\ x_pc = "idle"
    /\ \E target \in ModeArgs, outcome \in CommandOutcomes("flex") :
         LET sid == ChooseSliceIdIn(x_tx, x_slices)
             call == [op |-> "set_mode", target |-> target, sid |-> sid,
                      cur |-> x_slices[sid].mode, tie |-> FALSE]
         IN x_last' = IF FlexModeSkips(call.cur, target)
                      THEN FlexSkipRecord(call)
                      ELSE FlexSendRecord(call,
                               [verb |-> "slice set mode", sid |-> sid, arg |-> target],
                               outcome)
    /\ x_pc' = "done"
    /\ UNCHANGED <<x_slices, x_tx, x_rfpower, x_tunepower>>
    /\ UNCHANGED flexOther

\* set_frequency(freq_mhz)
FlexSetFrequency ==
    /\ x_pc = "idle"
    /\ \E target \in TargetHz, outcome \in CommandOutcomes("flex"), tie \in BOOLEAN :
         LET sid == ChooseSliceIdIn(x_tx, x_slices)
             call == [op |-> "set_frequency", target |-> target, sid |-> sid,
                      cur |-> x_slices[sid].freq, tie |-> tie]
         IN x_last' = IF FlexFreqSkips(call.cur, target, tie)
                      THEN FlexSkipRecord(call)
                      ELSE FlexSendRecord(call,
                               [verb |-> "slice tune", sid |-> sid,
                                arg |-> FlexTuneHz(target)],
                               outcome)
    /\ x_pc' = "done"
    /\ UNCHANGED <<x_slices, x_tx, x_rfpower, x_tunepower>>
    /\ UNCHANGED flexOther

\* set_drive_power(rfpower)
FlexSetDrivePower ==
    /\ x_pc = "idle"
    /\ \E target \in PowerValues, outcome \in CommandOutcomes("flex") :
         LET call == [op |-> "set_drive_power", target |-> target, sid |-> NoSlice,
                      cur |-> <<x_rfpower, x_tunepower>>, tie |-> FALSE]
         IN x_last' = IF FlexPowerSkips(x_rfpower, x_tunepower, target)
                      THEN FlexSkipRecord(call)
                      ELSE FlexSendRecord(call,
                               [verb |-> "transmit set tunepower rfpower",
                                sid |-> NoSlice, arg |-> target],
                               outcome)
    /\ x_pc' = "done"
    /\ UNCHANGED <<x_slices, x_tx, x_rfpower, x_tunepower>>
    /\ UNCHANGED flexOther

InitFlexSet == FlexSetSessionInit

NextFlexSet ==
    \/ FlexSetMode
    \/ FlexSetFrequency
    \/ FlexSetDrivePower

SpecFlexSet == InitFlexSet /\ [][NextFlexSet]_vars


\* ------------------------------------------------ verify_frequency_match
\* RF2KSClient.verify_frequency_match(expected_freq_mhz, max_tries, delay_s),
\* one iteration of its for-loop per step.

\* The expected frequencies (Hz) and what /data can report (Hz).
VerifyExpected == {14255000, 14255999, 14256000}
VerifyHz == {14254999, 14255000, 14255999, 14256000}

\* One read of /data: ok is FALSE when the request failed or the payload has
\* no usable frequency (_normalize_hz gave None), else hz is the report.
VerifyReads == {[ok |-> FALSE, hz |-> 0]} \cup {[ok |-> TRUE, hz |-> h] : h \in VerifyHz}

\* Faulty variant of TriesLeft: one more iteration than max_tries.
TriesLeftInclusive(done, maxn) == done <= maxn

\* for _ in range(max_tries): whether another iteration follows done ones.
TriesLeft(done, maxn) == done < maxn

VerifySessionInit ==
    /\ variant = "tuning_loop"
    /\ radio_type = "rigctl"
    /\ dummy = FALSE
    /\ amp_enabled = TRUE
    /\ is_cat = TRUE
    /\ force_manual = FALSE
    /\ SeqInit
    /\ RigInit
    /\ LinkInit
    /\ AckInit
    /\ WaitInit
    /\ SendInit
    /\ CloseInit
    /\ BandInit
    /\ SnapInit
    /\ ShutInit
    /\ ExtInit
    /\ ProcInit
    /\ PrepInit
    /\ CycleInit
    /\ FlexSetInit
    /\ v_pc = "loop"
    /\ v_expected \in VerifyExpected
    /\ v_max \in 0..MaxTries
    /\ v_reads = <<>>
    /\ v_last_seen = None

\* One iteration: the GET of /data; a matching read returns, any other read
\* (failed, unparseable or another kHz) sleeps delay_s and goes on.
VerifyIteration ==
    /\ v_pc = "loop"
    /\ TriesLeft(Len(v_reads), v_max)
    /\ \E rd \in VerifyReads :
         /\ v_reads' = Append(v_reads, rd)
         /\ v_last_seen' = IF rd.ok THEN rd.hz ELSE v_last_seen
         /\ v_pc' = IF ReadMatches(rd, v_expected) THEN "returned" ELSE "loop"
    /\ UNCHANGED <<v_expected, v_max>>
    /\ UNCHANGED verifyOther

\* The for-loop is exhausted: raise RF2KSClientError.
VerifyRaise ==
    /\ v_pc = "loop"
    /\ ~TriesLeft(Len(v_reads), v_max)
    /\ v_pc' = "raised"
    /\ UNCHANGED <<v_expected, v_max, v_reads, v_last_seen>>
    /\ UNCHANGED verifyOther

InitVerify == VerifySessionInit

NextVerify ==
    \/ VerifyIteration
    \/ VerifyRaise

SpecVerify == InitVerify /\ [][NextVerify]_vars


\* ------------------------------------------------ the plan, from the generator to the wire

\* What every later session starts from outside its own group.
BaseInit ==
    /\ variant = "tuning_loop"
    /\ radio_type = "rigctl"
    /\ dummy = FALSE
    /\ amp_enabled = FALSE
    /\ is_cat = FALSE
    /\ force_manual = FALSE
    /\ SeqInit
    /\ RigInit
    /\ LinkInit
    /\ AckInit
    /\ WaitInit
    /\ SendInit
    /\ CloseInit
    /\ BandInit
    /\ SnapInit
    /\ ShutInit
    /\ CoreInit

\* The bands the plan session draws, in Hz: 2.5 kHz and 5 kHz segments, with
\* reference centers on and off the 100 Hz grid.
PlanBands ==
    [bs : {7000000}, be : {7005000, 7010000}, step : {2500, 5000},
     c0 : {7001250, 7002500, 7001300, 7002550}]

\* round(k / 1000.0, 4): the point, given in kHz, as MHz with four decimals,
\* which is the nearest multiple of 100 Hz. A point half way between two
\* multiples goes where the binary value of the float falls: either of them.
PlanEntryHz(hz, up) ==
    LET q == hz \div 100
        r == hz % 100
    IN IF r > 50 \/ (r = 50 /\ up) THEN (q + 1) * 100 ELSE q * 100

\* The Hz value the link writes for set_frequency(freq_mhz): the polling link
\* "F int(round(freq_mhz * 1_000_000))", the event-driven link
\* "slice tune sid freq_mhz:.4f" (the mirror is empty: nothing is skipped).
WireHz(link, hz) == IF link = "flex" THEN FlexTuneHz(hz) ELSE hz

PlanSessionInit ==
    /\ BaseInit
    /\ PlanRest
    /\ g_pc = "in"
    /\ g_link \in {"rigctl", "flex"}
    /\ g_band \in PlanBands
    /\ g_pts = <<>>
    /\ g_plan = <<>>
    /\ g_args = <<>>
    /\ g_wire = <<>>

\* "Build plan": the generator's points, each appended as
\* round(k / 1000.0, 4); an empty plan ends the run.
PlanBuild ==
    /\ g_pc = "in"
    /\ LET pts == calculate_tuning_frequencies(g_band.bs, g_band.be,
                                               g_band.step, g_band.c0).pts
       IN /\ g_pts' = pts
          /\ \E ups \in [1..Len(pts) -> BOOLEAN] :
               g_plan' = [i \in 1..Len(pts) |-> PlanEntryHz(pts[i], ups[i])]
          /\ g_pc' = IF pts = <<>> THEN "done" ELSE "loop"
    /\ UNCHANGED <<g_link, g_band, g_args, g_wire>>
    /\ UNCHANGED planOther

\* One entry of the loop: radio_client.set_frequency(freq_mhz) and what the
\* link writes for it.
PlanSetFrequency ==
    /\ g_pc = "loop"
    /\ LET i == Len(g_args) + 1
       IN /\ g_args' = Append(g_args, g_plan[i])
          /\ g_wire' = Append(g_wire, WireHz(g_link, g_plan[i]))
          /\ g_pc' = IF i = Len(g_plan) THEN "done" ELSE "loop"
    /\ UNCHANGED <<g_link, g_band, g_pts, g_plan>>
    /\ UNCHANGED planOther

InitPlan == PlanSessionInit

NextPlan ==
    \/ PlanBuild
    \/ PlanSetFrequency

SpecPlan == InitPlan /\ [][NextPlan]_vars

\* ------------------------------------------------ the interlock mirror of the event-driven link

\* The most inbound lines one interlock session feeds to the parser.
MaxInboundLines == 3

\* What the session's radio sends as state=... of an interlock line; a
\* lower-case value is not matched by state=([A-Z_]+).
InboundStates == InterlockTexts

\* An inbound line, as the parsers see it: whether it holds the word
\* "interlock", what state=([A-Z_]+) captures (None for no match), and what
\* rfpower=([0-9]+) captures (NoPower for no match).
InboundLines ==
    [interlock : BOOLEAN, state : InboundStates \cup {None}, rfpower : {NoPower, 10}]

\* FlexParser._parse_interlock: the callback is made for a line that holds
\* "interlock" and a state.
IsInterlockEvent(line) == line.interlock /\ line.state # None

LockSessionInit ==
    /\ BaseInit
    /\ LockRest
    /\ LockInit

\* The listener feeds one line to FlexParser.feed: _parse_interlock and
\* _parse_transmit with their callbacks _on_interlock and _on_transmit
\* (identity and slice touch neither field).
LockFeed ==
    /\ k_lines < MaxInboundLines
    /\ k_lines' = k_lines + 1
    /\ \E line \in InboundLines :
         /\ IF IsInterlockEvent(line)
            THEN /\ k_tx_state' = line.state
                 /\ k_ptt_active' = InterlockActive(line.state)
                 /\ k_last' = line.state
            ELSE UNCHANGED <<k_tx_state, k_ptt_active, k_last>>
         /\ k_rfpower' = IF line.rfpower # NoPower THEN line.rfpower ELSE k_rfpower
    /\ UNCHANGED k_got
    /\ UNCHANGED lockOther

\* get_ptt(): bool(self._ptt_active)
LockGetPtt ==
    /\ k_got' = <<k_ptt_active, k_last>>
    /\ UNCHANGED <<k_ptt_active, k_tx_state, k_rfpower, k_lines, k_last>>
    /\ UNCHANGED lockOther

InitLock == LockSessionInit

NextLock ==
    \/ LockFeed
    \/ LockGetPtt

SpecLock == InitLock /\ [][NextLock]_vars

\* ------------------------------------------------ the slice a set_* command addresses

\* The tx field of a slice update: 0, 1, or absent.
TxFields == {"0", "1", "-"}

\* _on_slice, "TX flag": tx_slice_id after an update for sid.
TxSliceAfter(cur, sid, tx) == IF tx = "1" /\ cur # sid THEN sid ELSE cur

ChanSessionInit ==
    /\ BaseInit
    /\ ChanRest
    /\ ChanInit

\* _on_slice for one slice update: merge the fields, then the TX flag.
ChanOnSlice ==
    /\ h_updates < MaxSliceUpdates
    /\ h_updates' = h_updates + 1
    /\ \E sid \in SliceIds, line_mode \in {"CW", NoMode}, tx \in TxFields :
         /\ h_slices' = [h_slices EXCEPT ![sid] =
                            MergeSlice(h_slices[sid], [mode |-> line_mode, freq |-> NoFreq])]
         /\ h_tx' = TxSliceAfter(h_tx, sid, tx)
         /\ h_last_tx' = IF tx = "1" THEN sid ELSE h_last_tx
         /\ h_ids' = h_ids \cup {sid}
    /\ UNCHANGED h_cmd
    /\ UNCHANGED chanOther

\* set_mode / set_frequency: sid = self._choose_slice_id_for_commands()
ChanSet ==
    /\ \E call \in {"set_mode", "set_frequency"} :
         h_cmd' = <<call, ChooseSliceIdIn(h_tx, h_slices)>>
    /\ UNCHANGED <<h_slices, h_tx, h_updates, h_last_tx, h_ids>>
    /\ UNCHANGED chanOther

InitChan == ChanSessionInit

NextChan ==
    \/ ChanOnSlice
    \/ ChanSet

SpecChan == InitChan /\ [][NextChan]_vars

\* ------------------------------------------------ what the summary counts

\* What a step of an entry comes to: it goes on, it is left by the
\* "continue" of an except clause or of a timeout, or an exception leaves
\* run_tuning_loop.
StepOutcomes == {"ok", "skipped", "raised"}

\* What the PTT stage of an entry comes to: the carrier came and went, the
\* unkey wait timed out ("Continuing."), the carrier wait timed out
\* ("Skipping segment."), or an exception or Ctrl+C left the loop.
PttOutcomes == {"completed", "unkey_timeout", "tx_timeout", "raised"}

\* Faulty variant of SegmentCounted: a carrier timeout is counted as well.
SegmentCountedAlways(outcome) == outcome # "raised"

\* The PTT stage falls through to log_tuner_data and "total_segments += 1".
SegmentCounted(outcome) == outcome \in {"completed", "unkey_timeout"}

\* bands_count = len(seen_bands) if seen_bands else (len(selected_bands) or 1)
BandsCount(seen, selected) ==
    IF seen # {} THEN Cardinality(seen)
    ELSE IF selected # 0 THEN selected ELSE 1

CountSessionInit ==
    /\ BaseInit
    /\ CountRest
    /\ n_pc = "plan"
    /\ n_len \in 0..PlanLen
    /\ n_selected \in 0..2
    /\ n_seg = 1
    /\ n_last_band = 0
    /\ n_seen_bands = {}
    /\ n_total = 0
    /\ n_started = {}
    /\ n_skipped = {}
    /\ n_report = <<>>

\* The for statement takes the next entry, or the loop ends.
CountAdvance ==
    IF n_seg = n_len
    THEN n_pc' = "summary" /\ n_seg' = n_seg
    ELSE n_pc' = "band" /\ n_seg' = n_seg + 1

\* "if not plan: ... return", else the loop starts.
CountPlan ==
    /\ n_pc = "plan"
    /\ n_pc' = IF n_len = 0 THEN "returned" ELSE "band"
    /\ UNCHANGED <<n_len, n_selected, n_seg, n_last_band, n_seen_bands, n_total,
                   n_started, n_skipped, n_report>>
    /\ UNCHANGED countOther

\* "New band setup" of the entry.
CountBandSetup ==
    /\ n_pc = "band"
    /\ n_started' = n_started \cup {n_seg}
    /\ IF PlanBand(n_seg) # n_last_band
       THEN /\ n_seen_bands' = n_seen_bands \cup {PlanBand(n_seg)}
            /\ \E outcome \in StepOutcomes :
                 CASE outcome = "ok" ->
                        /\ n_last_band' = PlanBand(n_seg)
                        /\ n_pc' = "freq"
                        /\ UNCHANGED <<n_seg, n_skipped>>
                   [] outcome = "skipped" ->
                        /\ n_last_band' = PlanBand(n_seg)
                        /\ n_skipped' = n_skipped \cup {<<n_seg, "band">>}
                        /\ CountAdvance
                   [] OTHER ->
                        /\ n_pc' = "aborted"
                        /\ UNCHANGED <<n_seg, n_last_band, n_skipped>>
       ELSE /\ n_pc' = "freq"
            /\ UNCHANGED <<n_seg, n_last_band, n_seen_bands, n_skipped>>
    /\ UNCHANGED <<n_len, n_selected, n_total, n_report>>
    /\ UNCHANGED countOther

\* "Set frequency", with the verification against the amplifier after it.
CountSetFrequency ==
    /\ n_pc = "freq"
    /\ \E outcome \in StepOutcomes :
         CASE outcome = "ok" -> n_pc' = "ptt" /\ UNCHANGED <<n_seg, n_skipped>>
           [] outcome = "skipped" ->
                /\ n_skipped' = n_skipped \cup {<<n_seg, "freq">>}
                /\ CountAdvance
           [] OTHER -> n_pc' = "aborted" /\ UNCHANGED <<n_seg, n_skipped>>
    /\ UNCHANGED <<n_len, n_selected, n_last_band, n_seen_bands, n_total,
                   n_started, n_report>>
    /\ UNCHANGED countOther

\* The PTT stage of the entry, on whichever path.
CountPtt ==
    /\ n_pc = "ptt"
    /\ \E outcome \in PttOutcomes :
         /\ n_skipped' = IF outcome = "tx_timeout"
                         THEN n_skipped \cup {<<n_seg, "carrier">>}
                         ELSE n_skipped
         /\ IF SegmentCounted(outcome) THEN n_pc' = "log" /\ n_seg' = n_seg
            ELSE IF outcome = "raised" THEN n_pc' = "aborted" /\ n_seg' = n_seg
            ELSE CountAdvance
    /\ UNCHANGED <<n_len, n_selected, n_last_band, n_seen_bands, n_total,
                   n_started, n_report>>
    /\ UNCHANGED countOther

\* log_tuner_data inside its try, then "total_segments += 1".
CountLog ==
    /\ n_pc = "log"
    /\ n_total' = n_total + 1
    /\ CountAdvance
    /\ UNCHANGED <<n_len, n_selected, n_last_band, n_seen_bands, n_started,
                   n_skipped, n_report>>
    /\ UNCHANGED countOther

\* "Summary": Bands tuned and Segments tuned.
CountSummary ==
    /\ n_pc = "summary"
    /\ n_report' = <<BandsCount(n_seen_bands, n_selected), n_total>>
    /\ n_pc' = "done"
    /\ UNCHANGED <<n_len, n_selected, n_seg, n_last_band, n_seen_bands, n_total,
                   n_started, n_skipped>>
    /\ UNCHANGED countOther

InitCount == CountSessionInit

NextCount ==
    \/ CountPlan
    \/ CountBandSetup
    \/ CountSetFrequency
    \/ CountPtt
    \/ CountLog
    \/ CountSummary

SpecCount == InitCount /\ [][NextCount]_vars

\* ------------------------------------------------ whose reply a call of _send reads

\* The most _send calls one thread makes in the reply session.
MaxReplyCalls == 2

\* The foreground thread and the background poller.
ReplyThreads == {"fg", "mon"}

\* What rigctld writes for a command of thread t: the value or "RPRT 0" on
\* one line, or, for a value query on the builds that echo "RPRT 0" first,
\* "RPRT 0" and then the value.
ReplyLines(t, expect_value) ==
    IF expect_value
    THEN {<<[by |-> t, text |-> "value"]>>,
          <<[by |-> t, text |-> "RPRT 0"]>>,
          <<[by |-> t, text |-> "RPRT 0"], [by |-> t, text |-> "value"]>>}
    ELSE {<<[by |-> t, text |-> "RPRT 0"]>>}

\* expect_value and (first == "" or first.upper().startswith("RPRT"))
ReadsFollowUp(expect_value, first) ==
    expect_value /\ (first = NoLine \/ first.text = "RPRT 0")

ReplySessionInit ==
    /\ BaseInit
    /\ ReplyRest
    /\ ReplyInit

\* "with self.lock:" and the write of the command: the poller sends "t"
\* with expect_value, the foreground thread a query or a set command.
ReplySend(t) ==
    /\ r_pc[t] = "idle"
    /\ r_calls[t] < MaxReplyCalls
    /\ r_lock = None
    /\ r_lock' = t
    /\ \E expect_value \in (IF t = "mon" THEN {TRUE} ELSE BOOLEAN) :
         /\ r_cmd' = [r_cmd EXCEPT ![t] = expect_value]
         /\ \E lines \in ReplyLines(t, expect_value) : r_buf' = r_buf \o lines
    /\ r_calls' = [r_calls EXCEPT ![t] = @ + 1]
    /\ r_pc' = [r_pc EXCEPT ![t] = "sent"]
    /\ UNCHANGED <<r_first, r_read, r_ret>>
    /\ UNCHANGED replyOther

\* The read of the first line, the last statement under the lock: the
\* oldest unread line, or nothing within the timeout. A call that reads no
\* follow-up line returns the first line.
ReplyReadFirst(t) ==
    /\ r_pc[t] = "sent"
    /\ r_lock' = None
    /\ LET first == IF r_buf = <<>> THEN NoLine ELSE Head(r_buf)
       IN /\ r_buf' = IF r_buf = <<>> THEN r_buf ELSE Tail(r_buf)
          /\ r_first' = [r_first EXCEPT ![t] = first]
          /\ r_read' = IF first = NoLine THEN r_read ELSE r_read \cup {<<t, first.by>>}
          /\ IF ReadsFollowUp(r_cmd[t], first)
             THEN /\ r_pc' = [r_pc EXCEPT ![t] = "follow_up"]
                  /\ UNCHANGED r_ret
             ELSE /\ r_pc' = [r_pc EXCEPT ![t] = "idle"]
                  /\ r_ret' = IF first = NoLine THEN r_ret ELSE r_ret \cup {<<t, first.by>>}
    /\ UNCHANGED <<r_cmd, r_calls>>
    /\ UNCHANGED replyOther

\* The follow-up read, after the with block: a line that is not "RPRT ..."
\* is returned in place of the first one.
ReplyFollowUp(t) ==
    /\ r_pc[t] = "follow_up"
    /\ LET extra == IF r_buf = <<>> THEN NoLine ELSE Head(r_buf)
           ret == IF extra # NoLine /\ extra.text # "RPRT 0" THEN extra ELSE r_first[t]
       IN /\ r_buf' = IF r_buf = <<>> THEN r_buf ELSE Tail(r_buf)
          /\ r_read' = IF extra = NoLine THEN r_read ELSE r_read \cup {<<t, extra.by>>}
          /\ r_ret' = IF ret = NoLine THEN r_ret ELSE r_ret \cup {<<t, ret.by>>}
    /\ r_pc' = [r_pc EXCEPT ![t] = "idle"]
    /\ UNCHANGED <<r_lock, r_cmd, r_first, r_calls>>
    /\ UNCHANGED replyOther

InitReply == ReplySessionInit

NextReply ==
    \/ \E t \in ReplyThreads : ReplySend(t)
    \/ \E t \in ReplyThreads : ReplyReadFirst(t)
    \/ \E t \in ReplyThreads : ReplyFollowUp(t)

SpecReply == InitReply /\ [][NextReply]_vars

\* ------------------------------------------------ shutdown against the background poller

\* The most polls the poller starts in the disconnect session.
MaxStopPolls == 3

\* The operations of the poller that block for longer than the join waits:
\* the read of the reply (2.5 s) and the connect of _reconnect (5 s), both
\* under self.lock.
StopBlocking == {"send", "send_reconnect"}

StopSessionInit ==
    /\ BaseInit
    /\ StopRest
    /\ StopInit

\* _reconnect(): the transport is closed and opened again; ok says whether
\* the connect succeeds.
StopReconnect(ok) ==
    /\ d_open' = ok
    /\ d_connected' = ok
    /\ d_opens' = IF ok /\ d_pc = "returned" THEN d_opens + 1 ELSE d_opens

\* shutdown(): _stop_ptt_monitor sets _evt_stop.
StopCall ==
    /\ d_pc = "running"
    /\ d_stop' = TRUE
    /\ d_pc' = "joining"
    /\ UNCHANGED <<d_mon, d_lock, d_connected, d_open, d_reconnect_once, d_event,
                   d_polls, d_opens>>
    /\ UNCHANGED stopOther

\* t.join(timeout=1.0): the poller has ended, or the second is over while
\* the poller sits in a blocking operation.
StopJoin ==
    /\ d_pc = "joining"
    /\ d_mon = "exited" \/ d_mon \in StopBlocking
    /\ d_pc' = "closing"
    /\ UNCHANGED <<d_mon, d_lock, d_stop, d_connected, d_open, d_reconnect_once,
                   d_event, d_polls, d_opens>>
    /\ UNCHANGED stopOther

\* "with self.lock:" of shutdown: the transports are closed, connected is
\* cleared, and shutdown returns.
StopClose ==
    /\ d_pc = "closing"
    /\ d_lock = None
    /\ d_open' = FALSE
    /\ d_connected' = FALSE
    /\ d_pc' = "returned"
    /\ UNCHANGED <<d_mon, d_lock, d_stop, d_reconnect_once, d_event, d_polls, d_opens>>
    /\ UNCHANGED stopOther

\* "while not self._evt_stop.is_set()": the loop ends, or _send("t") takes
\* the lock.
StopMonCheck ==
    /\ d_mon = "check"
    /\ IF d_stop
       THEN d_mon' = "exited" /\ UNCHANGED <<d_lock, d_polls>>
       ELSE /\ d_polls < MaxStopPolls
            /\ d_lock = None
            /\ d_lock' = "mon"
            /\ d_polls' = d_polls + 1
            /\ d_mon' = "send"
    /\ UNCHANGED <<d_pc, d_stop, d_connected, d_open, d_reconnect_once, d_event, d_opens>>
    /\ UNCHANGED stopOther

\* _send, first attempt under the lock: the reply is read and the iteration
\* ends after its sleep, or the write or read raises.
StopMonSend ==
    /\ d_mon = "send"
    /\ \E ok \in (IF d_open THEN BOOLEAN ELSE {FALSE}) :
         IF ok
         THEN d_mon' = "check" /\ d_lock' = None
         ELSE d_mon' = "send_reconnect" /\ d_lock' = d_lock
    /\ UNCHANGED <<d_pc, d_stop, d_connected, d_open, d_reconnect_once, d_event,
                   d_polls, d_opens>>
    /\ UNCHANGED stopOther

\* _send, the except clause under the lock: _reconnect(), then the second
\* attempt; RigctlError leaves _send when either fails.
StopMonSendReconnect ==
    /\ d_mon = "send_reconnect"
    /\ \E ok \in BOOLEAN, retry_ok \in BOOLEAN :
         /\ StopReconnect(ok)
         /\ d_mon' = IF ok /\ retry_ok THEN "check" ELSE "raised"
    /\ d_lock' = None
    /\ UNCHANGED <<d_pc, d_stop, d_reconnect_once, d_event, d_polls>>
    /\ UNCHANGED stopOther

\* _ptt_monitor_loop, the except clause: the single _reconnect() of the
\* loop, which takes the lock itself; without it, or when it fails, event
\* mode is disabled and the thread ends.
StopMonHandle ==
    /\ d_mon = "raised"
    /\ IF d_reconnect_once
       THEN /\ d_lock = None
            /\ \E ok \in BOOLEAN :
                 /\ StopReconnect(ok)
                 /\ d_reconnect_once' = IF ok THEN FALSE ELSE d_reconnect_once
                 /\ d_mon' = IF ok THEN "check" ELSE "exited"
                 /\ d_event' = IF ok THEN d_event ELSE FALSE
       ELSE /\ d_mon' = "exited"
            /\ d_event' = FALSE
            /\ UNCHANGED <<d_connected, d_open, d_reconnect_once, d_opens>>
    /\ UNCHANGED <<d_pc, d_lock, d_stop, d_polls>>
    /\ UNCHANGED stopOther

InitStop == StopSessionInit

NextStop ==
    \/ StopCall
    \/ StopJoin
    \/ StopClose
    \/ StopMonCheck
    \/ StopMonSend
    \/ StopMonSendReconnect
    \/ StopMonHandle

SpecStop == InitStop /\ [][NextStop]_vars

\* ================================================================ claims
\* Claims about the sequencer, checked under Spec.

\* The positions of the foreground thread inside a PTT path.
PttPcs == {"wait_tx", "wait_unkey", "manual_key", "manual_unkey",
           "poll_tx", "poll_unkey"}

\* C1: when verification is enabled and max_tries = 2 reads of the amplifier
\* gave no frequency with the target's kHz truncation, run_tuning_loop has
\* raised on that entry: the run is aborted there, no PTT path was entered
\* for that entry and no later entry was started.
C1_VerifyExhaustionIsFatal ==
    /\ (pc = "verify" => tries < max_tries)
    /\ (verify_failed # 0 =>
          /\ VerifyEnabled
          /\ pc \in {"aborted", "done"}
          /\ seg = verify_failed
          /\ verify_failed \notin ptt_started
          /\ \A j \in PlanIdx : j > verify_failed => j \notin seg_started)

\* C1 witness: the second entry's verification was exhausted after the
\* first entry was tuned, and the run is aborted.
C1_Witness ==
    verify_failed = 2 /\ pc = "aborted" /\ total_segments = 1 /\ tries = max_tries

\* C2: with verification enabled, while the foreground thread is in a PTT
\* path of an entry, set_frequency has returned for that entry and the
\* amplifier's last report, read for that entry, has the kHz truncation of
\* the entry's target.
C2_PttOnlyAfterAmpConfirmed ==
    (VerifyEnabled /\ (pc \in PttPcs \/ pc \in {"decide", "select"})) =>
        /\ seg \in freq_set
        /\ last_seen \div 1000 = PlanHz(seg) \div 1000

\* C2 witness: a PTT path entered after the first read missed and the
\* second matched with a value that differs from the target below the kHz.
C2_Witness ==
    /\ VerifyEnabled
    /\ pc \in PttPcs
    /\ tries = 1
    /\ last_seen = PlanHz(seg) + 499

\* C8 (as claimed): once an EVENT-DRIVEN wait for the carrier has timed out,
\* the link's ptt_supported is false and the foreground thread is never
\* again in an automatic (event-driven or polling) PTT path.
C8_TimeoutLatchesManual ==
    tx_timed_out =>
        /\ ~ptt_supported
        /\ pc \notin {"wait_tx", "wait_unkey", "poll_tx", "poll_unkey"}

\* C9 (as claimed): over successive entries the mode never goes
\* EventDriven -> Polling, Polling -> EventDriven or Manual -> automatic.
C9_ModeOnlyForwardToManual ==
    /\ (prev_mode = "EventDriven" => mode # "Polling")
    /\ (prev_mode = "Polling" => mode # "EventDriven")
    /\ (prev_mode = "Manual" => mode = "Manual")

\* C9 (amended): Polling -> EventDriven and Manual -> automatic never occur;
\* EventDriven -> Polling occurs only in tuning_loop.py's loop and only
\* after the background monitor has disabled event support.
C9_ModeNeverBackward ==
    /\ (prev_mode = "Polling" => mode # "EventDriven")
    /\ (prev_mode = "Manual" => mode = "Manual")
    /\ ((prev_mode = "EventDriven" /\ mode = "Polling") =>
            (evt_disabled /\ ~supports_event_ptt /\ variant = "tuning_loop"))

\* C9 witness: an entry tuned EventDriven is followed by one tuned Polling.
C9_Witness ==
    prev_mode = "EventDriven" /\ mode = "Polling" /\ evt_disabled /\ ptt_supported

\* The selection function the claim C10 states.
ClaimedMode(override, readable, is_dummy, edge_wait) ==
    IF override \/ ~readable \/ is_dummy THEN "Manual"
    ELSE IF edge_wait THEN "EventDriven" ELSE "Polling"

\* C10 (as claimed): every decision of the PTT path selects the mode the
\* claimed function gives for (manual override, ptt_supported, dummy
\* backend, supports_event_ptt).
C10_SelectionFunction ==
    [][DecidePtt =>
          mode' = ClaimedMode(force_manual, ptt_local, dummy, EventFlag)]_vars


\* ---------------------------------------------------------------------
\* Claims about the links, checked under SpecLink.

\* C5 (as claimed): of two set_frequency calls in a row with the same value
\* that both return, the second writes no command.
C5_SetFrequencyIdempotent ==
    \A i \in 1..(Len(set_calls) - 1) :
        (/\ set_calls[i].hz = set_calls[i + 1].hz
         /\ set_calls[i].ok
         /\ set_calls[i + 1].ok) => ~set_calls[i + 1].sent

\* C6: once a PTT query of the polling link was answered RPRT -11, to
\* get_ptt or to the background monitor, ptt_supported is false in every
\* later state, also after replies that parse as 0 or 1.
C6_Rprt11LatchesUnsupported ==
    saw_rprt11 => ~ptt_supported

\* C6 witness: after the RPRT -11 a reply parsed as a boolean and the
\* monitor is running again.
C6_Witness ==
    saw_rprt11 /\ bool_after_rprt11 /\ ~ptt_supported /\ evt_alive

\* C7 (as claimed): a capability flag the link has set to false stays
\* false: ptt_supported after an RPRT -11, supports_event_ptt after
\* _disable_event_mode.
C7_FlagsNeverReturnToTrue ==
    /\ (saw_rprt11 => ~ptt_supported)
    /\ (evt_disabled => ~supports_event_ptt)


\* ---------------------------------------------------------------------
\* Claims about FlexTransport, checked under SpecAck.

\* C3: the line a send_command call returns carries the call's own sequence
\* number between the "R" and the bar: an ACK of any other command (late,
\* stale or out of order) is never returned to the call.
C3_ReturnsOwnAck ==
    \A c \in Callers :
        caller[c].st = "returned" =>
            /\ Head(caller[c].got) = "R"
            /\ SeqField(caller[c].got) = Str(caller[c].seq)
            /\ Len(caller[c].got) > Len(Str(caller[c].seq)) + 1

\* C3 witness: a call returned its ACK after it had taken an ACK of another
\* command from the queue.
C3_Witness ==
    \E c \in Callers :
        /\ caller[c].st = "returned"
        /\ caller[c].skipped
        /\ caller[c].got = AckLine(caller[c].seq)

\* C4 (as claimed): when commands 1, 2 and 3 were pending together, their
\* ACKs were put into the queue in the order 2, 1, 3 and no call gave up
\* with a line still to come, every call that has finished has returned
\* the ACK of its own command.
C4_AcksRoutedToCallers ==
    scen = Len(ScenOrder) =>
        \A c \in Callers :
            caller[c].st \in {"returned", "timeout"} =>
                (caller[c].st = "returned" /\ caller[c].got = AckLine(caller[c].seq))


\* ---------------------------------------------------------------------
\* Claims about wait_for_tx / wait_for_unkey, checked under SpecWait.

\* C11 (as claimed): a call that has returned did so no later than the
\* deadline plus one slice, and gave true only if the flag had the awaited
\* level at a time before the deadline (from the moment of the call on).
C11_TrueOnlyBeforeDeadline ==
    w_pc = "returned" =>
        /\ w_ret_time <= w_deadline + Slice
        /\ (w_result => w_active_before)

\* C11 (amended): a call returns no later than the deadline plus one slice;
\* the value returned is the level found by the call's last look at the
\* flag, which is made before the deadline when it gives true inside the
\* loop and at or after the deadline otherwise; false is returned only at
\* or after the deadline, and a true returned before the deadline means the
\* flag had the awaited level before the deadline.
C11_ReturnsLastLook ==
    w_pc = "returned" =>
        /\ w_ret_time <= w_deadline + Slice
        /\ (w_result <=> w_ret_level)
        /\ (~w_result => w_ret_time >= w_deadline)
        /\ ((w_result /\ w_ret_time < w_deadline) => w_active_before)

\* C11 witness: after at least one slice wait a call returned true from its
\* look after the loop, the flag never having had the awaited level before
\* the deadline.
C11_Witness ==
    /\ w_pc = "returned"
    /\ w_result
    /\ ~w_active_before
    /\ w_wake > 0
    /\ w_ret_time >= w_deadline

\* C12: an iteration of the background poller that met a transport error
\* has attempted exactly one reconnect when it ends, and when that reconnect
\* failed the poller has cleared supports_event_ptt and stopped.
C12_PollerReconnectsOnce ==
    (s_pc["mon"] \in {"idle", "stopped"} /\ s_fails["mon"] >= 1) =>
        /\ s_reconn["mon"] = 1
        /\ (s_rfail["mon"] =>
                s_pc["mon"] = "stopped" /\ ~supports_event_ptt /\ ~evt_alive)

\* C13: for a single transport failure of a call on the polling link (a
\* one-shot operation or an iteration of the monitor, its _send included),
\* at most one reconnect is attempted.
C13_OneReconnectPerFailure ==
    \A t \in Threads : s_fails[t] <= 1 => s_reconn[t] <= 1

\* C14: a one-shot operation writes its command at most twice and reconnects
\* at most once; after a failed first attempt it has reconnected once; it
\* raises exactly when the reconnect or the retry failed, and never returns
\* normally after both attempts failed.
C14_OneReconnectOneRetry ==
    /\ s_sends["fg"] <= 2
    /\ s_reconn["fg"] <= 1
    /\ (s_pc["fg"] \in {"try2", "ret", "raised"} /\ s_fails["fg"] >= 1
            => s_reconn["fg"] = 1)
    /\ (s_pc["fg"] = "ret"
            => /\ s_fails["fg"] < s_sends["fg"]
               /\ s_fails["fg"] <= 1
               /\ ~s_rfail["fg"])
    /\ (s_pc["fg"] = "raised"
            => /\ s_rfail["fg"] \/ s_fails["fg"] = 2
               /\ s_reconn["fg"] = 1)

C14_Witness ==
    /\ s_pc["fg"] = "raised"
    /\ s_op = "set_frequency"
    /\ s_sends["fg"] = 2
    /\ s_fails["fg"] = 2
    /\ s_reconn["fg"] = 1

\* C15: a send_command call that was pending when the listener tore the
\* transport down does not return an ACK.
C15_TeardownFailsPending ==
    \A c \in at_close : caller[c].st # "returned"

\* C16 (as stated): a send_command call on a connected transport ends in one
\* of two ways only, its ACK or TimeoutError.
C16_AckOrTimeoutOnly ==
    \A c \in Callers : caller[c].st # "raised"

\* C16 (amended): a send_command call that waits for its ACK always ends,
\* whatever lines arrive: it returns the ACK of its own command or raises
\* TimeoutError, the latter only once its deadline has passed; a call whose
\* write failed has ended by raising the write's error.
C16_SendCommandTerminates ==
    /\ [](\A c \in Callers :
            /\ caller[c].st = "timeout" => c_left[c] = 0
            /\ caller[c].st = "returned" => AckMatches(caller[c].got, caller[c].seq))
    /\ \A c \in Callers :
            (caller[c].st = "waiting") ~> (caller[c].st \in {"returned", "timeout"})

C16_Witness ==
    \E c \in Callers :
        /\ caller[c].st = "timeout"
        /\ caller[c].skipped
        /\ t_connected

\* ---------------------------------------------------------------------
\* Claims about calculate_tuning_frequencies, checked under SpecBand.

\* The call was made with end > start and segment_size > 0.
BandValid == b_pc = "out" /\ b_be > b_bs /\ b_step > 0

\* The grid centers whose full segment lies inside the band.
BandCenters ==
    {c \in b_bs..b_be :
        /\ (c - b_c0) % b_step = 0
        /\ c - Half(b_step) >= b_bs
        /\ c + Half(b_step) <= b_be}

\* p is the midpoint of [lo, hi], to the whole Hz.
IsMidpoint(p, lo, hi) == 2 * p - (lo + hi) \in {0 - 1, 0, 1}

\* C17: for end > start and segment_size > 0 the output is sorted ascending,
\* every point lies in [start, end], and the full-segment points follow one
\* another at exactly segment_size.
C17_SortedInBandSpaced ==
    BandValid =>
        LET pts == b_out.pts
        IN /\ ~b_out.raised
           /\ \A i \in 1..Len(pts) : pts[i] >= b_bs /\ pts[i] <= b_be
           /\ \A i \in 1..(Len(pts) - 1) : pts[i] < pts[i + 1]
           /\ \A i \in 1..(Len(pts) - 1) :
                (pts[i] \in BandCenters /\ pts[i + 1] \in BandCenters)
                    => pts[i + 1] - pts[i] = b_step
           /\ \A i, j \in 1..Len(pts) :
                (i < j /\ pts[i] \in BandCenters /\ pts[j] \in BandCenters)
                    => \A k \in i..j : pts[k] \in BandCenters

C17_Witness ==
    /\ BandValid
    /\ Len(b_out.pts) = 4
    /\ b_out.pts[1] \notin BandCenters
    /\ b_out.pts[2] \in BandCenters
    /\ b_out.pts[3] \in BandCenters
    /\ b_out.pts[4] \notin BandCenters

\* C18: when no full segment fits, the output is the two midpoints of
\* [start, L] and [L, end], L being the clamped left edge of the first
\* would-be segment; or, only for a band too narrow to split (no whole Hz
\* strictly between its edges), the one midpoint of the band.
C18_TwoPointsUnlessTooNarrow ==
    (BandValid /\ BandCenters = {}) =>
        LET pts == b_out.pts
            L == ClampedLeft(b_bs, b_be, b_step, b_c0)
        IN \/ /\ Len(pts) = 2
              /\ IsMidpoint(pts[1], b_bs, L)
              /\ IsMidpoint(pts[2], L, b_be)
           \/ /\ b_be - b_bs < 2
              /\ Len(pts) = 1
              /\ IsMidpoint(pts[1], b_bs, b_be)

\* C19: when at least one full segment fits, the output is the centers of
\* the full segments, with one filler before them at the midpoint of
\* [start, first left edge] exactly when that gap is not empty, and one
\* after them at the midpoint of [last right edge, end] exactly when that
\* gap is not empty; no filler when the segments tile the band.
C19_CentersPlusGapFillers ==
    (BandValid /\ BandCenters # {}) =>
        LET pts == b_out.pts
            first_left == (CHOOSE c \in BandCenters :
                             \A d \in BandCenters : c <= d) - Half(b_step)
            last_right == (CHOOSE c \in BandCenters :
                             \A d \in BandCenters : c >= d) + Half(b_step)
            lead == IF first_left > b_bs THEN 1 ELSE 0
            trail == IF last_right < b_be THEN 1 ELSE 0
        IN /\ Len(pts) = Cardinality(BandCenters) + lead + trail
           /\ BandCenters = {pts[i] : i \in (1 + lead)..(Len(pts) - trail)}
           /\ (lead = 1 => IsMidpoint(pts[1], b_bs, first_left))
           /\ (trail = 1 => IsMidpoint(pts[Len(pts)], last_right, b_be))

\* C19 witness: the band 5351.5-5366.5 kHz with 9 kHz segments (0..10 and 6
\* in units of 1.5 kHz), one segment fitting: three points.
C19_Witness ==
    /\ BandValid
    /\ b_bs = 0 /\ b_be = 10 /\ b_step = 6
    /\ Cardinality(BandCenters) = 1
    /\ Len(b_out.pts) = 3
    /\ b_out.pts[2] \in BandCenters

\* ---------------------------------------------------------------------
\* Claims about the restore snapshot, checked under SpecSnap.

\* C20: once the snapshot was captured, its slice id and mode stay as the
\* first capture wrote them, and so does its frequency (a frequency that
\* was still unknown at the capture may be filled in later).
C20_SnapshotNeverOverwritten ==
    first_cap.taken =>
        /\ orig.taken
        /\ orig.slice_id = first_cap.slice_id
        /\ orig.mode = first_cap.mode
        /\ (first_cap.freq # NoFreq => orig.freq = first_cap.freq)

\* ---------------------------------------------------------------------
\* Claims about FlexRadioClient.shutdown, checked under SpecShut.

\* The restore commands a snapshot calls for: its mode, then its frequency.
RestoreCommands ==
    (IF orig.mode # NoMode THEN <<"mode">> ELSE <<>>)
    \o (IF orig.freq # NoFreq THEN <<"freq">> ELSE <<>>)

\* C21: shutdown(restore=true) with a snapshot has issued the mode of the
\* snapshot and then its frequency when it ends; it never lets the failure
\* of a restore command out, and it ends with the transport disconnected.
C21_RestoresModeThenFrequency ==
    /\ ~sh_raised
    /\ sh_pc # "raised"
    /\ (sh_pc = "done" =>
            /\ ~t_connected
            /\ ((sh_restore /\ orig.taken) => sh_cmds = RestoreCommands))

\* Claims about the process, checked under SpecProc.

\* C22: when the frequency-verification failure or another fatal error ended
\* the tuning run, the process has called the radio link's shutdown once,
\* with the configured restore flag, and its exit status is not zero.
C22_FatalAbortRestoresAndExitsNonZero ==
    (m_pc = "exited" /\ m_cause \in LoopExceptions \X {"loop"})
        => /\ m_shutdown = <<m_restore>>
           /\ m_status # <<0>>

\* The shutdown half of C22 alone: after a fatal abort of the tuning run the
\* link's shutdown was called once with the configured restore flag.
FatalAbortCallsShutdown ==
    (m_pc \in {"handlers", "exited"} /\ m_cause \in LoopExceptions \X {"loop"})
        => m_shutdown = <<m_restore>>

\* Claims about the band preparation and set_frequency, checked under
\* SpecPrep.

\* The entries after entry i that the loop has gone past.
PassedAfter(i) == {j \in 1..PlanLen : j > i /\ j < p_seg}

\* C23: a radio error in the mode or drive-power setup at the first point of
\* a band is logged and never leaves the loop; every later entry the loop
\* has gone past was attempted: set_frequency was called for it, or it was
\* the first point of a later band whose preparation failed in turn; and the
\* entries of the same band are not skipped by the failure.
C23_BandPrepFailureDoesNotAbort ==
    /\ ~IsBaseRadioError(p_exc)
    /\ \A i \in p_prep_failed :
         /\ i \notin p_attempted
         /\ p_seg > i
         /\ p_last_band >= PlanBand(i)
         /\ \A j \in PassedAfter(i) :
              /\ j \in p_attempted \cup p_prep_failed
              /\ (PlanBand(j) = PlanBand(i) => j \in p_attempted)

\* Witness of C23: the preparation of the first band failed at entry 1, and
\* the run ended after entry 2 of that band and entry 3 of the next band
\* had their set_frequency.
C23_Witness ==
    /\ p_pc = "done"
    /\ 1 \in p_prep_failed
    /\ {2, 3} \subseteq p_attempted

\* C24: no exception raised by the link while the sequencer sets mode, drive
\* power or frequency leaves the loop: each one is a logged skip of the entry.
C24_TransportErrorsAreSkips ==
    /\ p_pc # "escaped"
    /\ p_exc = None

\* Claims about the PTT cycle, checked under SpecCycle.

AutoModes == {"EventDriven", "Polling"}

SensingPcs == {"wait_tx", "wait_unkey", "poll_tx", "poll_unkey"}

C25_ManualLogged ==
    /\ y_mode = "Manual"
    /\ y_forwarded = <<FALSE>>
    /\ y_power_reads = 0

\* C26: a Manual cycle makes no call of get_ptt, wait_for_tx or
\* wait_for_unkey, is never inside a sensing loop, and reaches the telemetry
\* step only after the operator's two ENTERs, the first before the second
\* prompt.
C26_ManualNeverSenses ==
    y_mode = "Manual" =>
        /\ y_calls = {}
        /\ y_pc \notin SensingPcs
        /\ (y_pc = "manual_key" => y_acks = 0)
        /\ (y_pc = "manual_unkey" => y_acks = 1)
        /\ (y_pc = "log" => y_acks = 2)
        /\ ~y_sensed

\* Witness of C26: a Manual cycle is at the telemetry step after both ENTERs.
C26_Witness ==
    /\ y_mode = "Manual"
    /\ y_pc = "log"
    /\ y_acks = 2
    /\ y_calls = {}

\* C27: every EventDriven or Polling cycle that is inside a sensing loop
\* leaves it, whatever the radio reports.
C27_SensingWaitsTerminate ==
    (y_pc \in SensingPcs) ~> (y_pc \notin SensingPcs)

\* The EventDriven half of C27: the two deadline loops are always left.
EventWaitsTerminate ==
    (y_pc \in {"wait_tx", "wait_unkey"}) ~> (y_pc \notin {"wait_tx", "wait_unkey"})

\* Claims about the set_* calls of the event-driven link, checked under
\* SpecFlexSet.

\* The mirrored state of the selected channel equals the target of the call
\* c: the mode texts are equal up to case, the frequencies are less than
\* 10 Hz apart (edge tells which way a distance of exactly 10 Hz counts),
\* rfpower and tunepower both equal the target.
AlreadyAtTarget(c, edge) ==
    CASE c.op = "set_mode" ->
            c.cur # NoMode /\ Upper(c.cur) = Upper(c.target)
      [] c.op = "set_frequency" ->
            c.cur # NoFreq
            /\ (Diff(c.cur, c.target) < 10 \/ (edge /\ Diff(c.cur, c.target) = 10))
      [] c.op = "set_drive_power" ->
            c.cur = <<c.target, c.target>>

\* C28: a set_mode, set_frequency or set_drive_power call hands no command to
\* the transport when the mirrored state of the selected channel equals the
\* target, and otherwise hands exactly one, for the selected channel and the
\* target, and returns only after its ACK.
C28_SetCallsShortCircuit ==
    x_pc = "done" =>
        /\ (AlreadyAtTarget(x_last, FALSE) =>
                x_last.handed = <<>> /\ x_last.raised = None)
        /\ (~AlreadyAtTarget(x_last, TRUE) =>
                /\ Len(x_last.handed) = 1
                /\ x_last.handed[1].sid = x_last.sid
                /\ (x_last.raised = None => (x_last.written /\ x_last.acked)))
        /\ Len(x_last.handed) <= 1
        /\ x_last.sid = (IF x_last.op = "set_drive_power" THEN NoSlice
                         ELSE ChooseSliceIdIn(x_tx, x_slices))

\* Witness of C28: set_mode("CW") found "cw" mirrored on the selected slice
\* and sent nothing.
C28_Witness ==
    /\ x_pc = "done"
    /\ x_last.op = "set_mode"
    /\ x_last.cur = "cw"
    /\ x_last.target = "CW"
    /\ x_last.handed = <<>>

\* set_frequency found the selected slice 100 Hz away, sent one "slice tune"
\* and returned after its ACK.
C28_TuneSent ==
    /\ x_pc = "done"
    /\ x_last.op = "set_frequency"
    /\ Diff(x_last.cur, x_last.target) = 100
    /\ Len(x_last.handed) = 1
    /\ x_last.acked
    /\ x_last.raised = None

\* Claims about verify_frequency_match, checked under SpecVerify.

\* The kHz a frequency in Hz lies in, truncating.
KhzOf(hz) == hz \div 1000

\* The read rd counts as a match of the expected frequency.
IsMatch(rd) == rd.ok /\ KhzOf(rd.hz) = KhzOf(v_expected)

\* C29: the call reads the amplifier at most max_tries times; it returns at
\* the first read whose kHz truncation equals the expected one, so no
\* earlier read matched; a failed or unparseable read counts as an attempt
\* without a match; and it raises exactly after max_tries reads none of
\* which matched.
C29_VerifyReadsAtMostMaxTries ==
    /\ Len(v_reads) <= v_max
    /\ \A i \in 1..(Len(v_reads) - 1) : ~IsMatch(v_reads[i])
    /\ (v_pc = "returned" => Len(v_reads) >= 1 /\ IsMatch(v_reads[Len(v_reads)]))
    /\ (v_pc = "loop" => \A i \in 1..Len(v_reads) : ~IsMatch(v_reads[i]))
    /\ (v_pc = "raised" =>
            /\ Len(v_reads) = v_max
            /\ \A i \in 1..Len(v_reads) : ~IsMatch(v_reads[i]))

\* Witness of C29: with max_tries = 3 a failed read and a read of another
\* kHz were followed by a matching third read, and the call returned.
C29_Witness ==
    /\ v_pc = "returned"
    /\ v_max = 3
    /\ Len(v_reads) = 3
    /\ ~v_reads[1].ok
    /\ v_reads[2].ok

\* The call raised after max_tries = 2 reads without a match.
C29_Raised ==
    /\ v_pc = "raised"
    /\ v_max = 2
    /\ Len(v_reads) = 2

\* C30: a read of a Hz ends the call with success for the expected b Hz
\* exactly when a div 1000 = b div 1000: 14,255,999 matches 14,255,000 and
\* 14,256,000 does not.
C30_MatchIsKhzTruncation ==
    /\ \A i \in 1..Len(v_reads) :
         v_reads[i].ok =>
            ((v_pc = "returned" /\ i = Len(v_reads))
                <=> KhzOf(v_reads[i].hz) = KhzOf(v_expected))
    /\ \A a \in VerifyHz :
         /\ ReadMatches([ok |-> TRUE, hz |-> a], v_expected)
                <=> KhzOf(a) = KhzOf(v_expected)
         /\ TruncateToKhz(a) = KhzOf(a) * 1000
    /\ ReadMatches([ok |-> TRUE, hz |-> 14255999], 14255000)
    /\ ~ReadMatches([ok |-> TRUE, hz |-> 14255999], 14256000)

\* Witness of C30: expected 14,255,000 Hz, the amplifier reported
\* 14,255,999 Hz and the call returned on that read.
C30_Witness ==
    /\ v_pc = "returned"
    /\ v_expected = 14255000
    /\ v_reads[Len(v_reads)].hz = 14255999

\* C31: every tuning point reaches the radio exactly: the argument of each
\* set_frequency call and the Hz value the link writes for it equal the
\* integer-Hz point the generator computed for that entry.
C31_PointsReachRadioExactly ==
    \A i \in 1..Len(g_args) :
        /\ g_args[i] = g_pts[i]
        /\ g_wire[i] = g_pts[i]

\* C32: a client that implements the event-driven waits exposes
\* supports_event_ptt together with ptt_supported, so the sequencer takes the
\* EventDriven path for it: the event-driven (Flex) link is never sequenced
\* by get_ptt polling.
C32_FlexIsSequencedEventDriven ==
    radio_type = "flex" => mode # "Polling"

\* The interlock states the claim calls transmitting: "TRANSMITTING" and
\* the states that begin with "TX".
ClaimedTransmitting == {"TRANSMITTING", "TX", "TX_ALLOWED"}

\* C33: get_ptt() returns true exactly when the most recent interlock event
\* carried "TRANSMITTING" or a state that begins with "TX"; it returns false
\* before any interlock event, and a line that is no interlock event leaves
\* the mirrored flag as it was.
C33_GetPttTracksLastInterlock ==
    /\ k_ptt_active = (k_last \in ClaimedTransmitting)
    /\ k_got # <<>> => k_got[1] = (k_got[2] \in ClaimedTransmitting)

\* get_ptt() returned true after a "TX_ALLOWED" event that followed other
\* lines, and the flag has since been cleared by a later event.
C33_Witness ==
    /\ k_got = <<TRUE, "TX_ALLOWED">>
    /\ k_lines = MaxInboundLines
    /\ k_last = "NOT_TX"
    /\ ~k_ptt_active

\* The channel the claim names for the mirror as it is now.
ClaimedChannel ==
    IF h_last_tx # NoSlice THEN h_last_tx
    ELSE IF h_ids # {} THEN CHOOSE i \in h_ids : \A j \in h_ids : i <= j
    ELSE 0

\* C34: a set_* call addresses the slice of the most recent update that
\* carried tx=1 if there was one, else the lowest slice id an update was
\* received for, else slice 0.
C34_SetAddressesClaimedChannel ==
    [][ChanSet => h_cmd'[2] = ClaimedChannel]_vars

\* A set_* call addressed slice 1 as the only slice of the mirror, without
\* a TX slice; a later update then made slice 0 the TX slice.
C34_Witness ==
    /\ h_cmd # <<>>
    /\ h_cmd[2] = 1
    /\ h_ids = {0, 1}
    /\ h_last_tx = 0
    /\ h_tx = 0

\* The entries of the plan that no band-setup failure, set_frequency
\* failure or carrier timeout skipped.
CompletedEntries == {i \in 1..n_len : \A sk \in n_skipped : sk[1] # i}

\* C35: the summary of a run that was not aborted reports as segments the
\* number of entries whose PTT cycle completed (skipped entries are not
\* counted, so the total is at most the length of the plan), and as bands
\* the number of distinct bands entered.
C35_SummaryCountsCompletedEntries ==
    n_report # <<>> =>
        /\ n_report[2] = Cardinality(CompletedEntries)
        /\ n_report[2] <= n_len
        /\ n_report[1] = Cardinality({PlanBand(i) : i \in n_started})

\* A summary after one entry was skipped by a band-setup failure, one by a
\* carrier timeout, and one completed, over two bands.
C35_Witness ==
    /\ n_report = <<2, 1>>
    /\ n_len = 3
    /\ \E i, j \in 1..n_len : {<<i, "band">>, <<j, "carrier">>} \subseteq n_skipped

BandPoints == {b_out.pts[i] : i \in 1..Len(b_out.pts)}

\* The grid centers reference + k * segment_size whose left edge is at or
\* after the band start.
GridCentersFromStart ==
    {c \in b_bs..(b_be + b_step) :
        (c - b_c0) % b_step = 0 /\ c - Half(b_step) >= b_bs}

\* C37: the full-segment centers of the output are exactly the grid centers
\* reference + k * segment_size whose segment lies inside the band: every
\* fitting grid center is in the output, every point of the output from the
\* first to the last of them is one of them, and the first one is the
\* smallest grid center whose left edge is at or after the band start.
C37_FullSegmentsAreFittingGridCenters ==
    (BandValid /\ BandCenters # {}) =>
        LET lo == CHOOSE c \in BandCenters : \A d \in BandCenters : c <= d
            hi == CHOOSE c \in BandCenters : \A d \in BandCenters : c >= d
        IN /\ BandCenters \subseteq BandPoints
           /\ \A p \in BandPoints : (lo <= p /\ p <= hi) => p \in BandCenters
           /\ \A p \in BandPoints : (p < lo \/ p > hi) =>
                ~((p - b_c0) % b_step = 0
                  /\ p - Half(b_step) >= b_bs /\ p + Half(b_step) <= b_be)
           /\ \A c \in GridCentersFromStart : lo <= c

\* Two full segments on a grid whose reference lies above them (k < 0),
\* with a gap before the first one.
C37_Witness ==
    /\ BandValid
    /\ Cardinality(BandCenters) = 2
    /\ \A c \in BandCenters : c < b_c0
    /\ \E p \in BandPoints : \A c \in BandCenters : p < c

\* The entries that follow, in their band, an entry whose band
\* preparation failed.
AfterPrepFailure ==
    {j \in 1..PlanLen :
        \E i \in p_prep_failed : i < j /\ PlanBand(i) = PlanBand(j)}

\* C38: the entry whose band preparation failed is left without a
\* set_frequency call, the preparation is not run again for that band, and
\* every later entry of the band the loop has passed went to set_frequency.
C38_PrepFailureSkipsFirstPointOnly ==
    /\ p_prep_failed \cap p_attempted = {}
    /\ \A i \in p_prep_failed : i = 1 \/ PlanBand(i - 1) # PlanBand(i)
    /\ p_pc \in {"set_mode", "set_drive_power"} =>
          \A i \in p_prep_failed : PlanBand(i) # PlanBand(p_seg)
    /\ \A j \in AfterPrepFailure : j < p_seg => j \in p_attempted

\* The run ended after the preparation of the first band failed at its
\* first entry: the second entry of that band was tuned all the same.
C38_Witness ==
    /\ p_pc = "done"
    /\ 1 \in p_prep_failed
    /\ 2 \in AfterPrepFailure
    /\ 2 \in p_attempted
    /\ 2 \notin p_freq_failed

\* C39: every reply line, the follow-up line of a value query included, is
\* read by the call that sent its command, and no call returns a line that
\* answers the other thread's command.
C39_RepliesReachTheirCaller ==
    /\ \A rd \in r_read : rd[1] = rd[2]
    /\ \A rt \in r_ret : rt[1] = rt[2]

\* C40: once shutdown() has returned the link stays disconnected: the
\* poller, also when it outlived the join, does not open the transport
\* again and does not set connected.
C40_StaysDisconnectedAfterShutdown ==
    d_pc = "returned" => (~d_connected /\ ~d_open /\ d_opens = 0)

====
